---------------------------- MODULE Spec2Model ----------------------------
(***************************************************************************)
(* Model of the tax-form pipeline of tax-v: the line-item mapper           *)
(* (mapExtractedDataToIncomeEntries) and the tax calculation engine        *)
(* (calculateTaxReturn) of lib/tax-form-mapping, the form parsers of       *)
(* lib/tax-form-ocr (extractDataFromTaxForm), the upload route, the        *)
(* process route of api/tax-forms, the Document AI route with its retry    *)
(* loop (processWithGoogleDocumentAI) and the accept-entries route with    *)
(* recalculateTaxReturn.                                                   *)
(*                                                                         *)
(* Money is counted in cents.  A JavaScript number is a record             *)
(* [tag, val]: tag "number" carries the amount in val; NaN and undefined   *)
(* carry val = 0 and are told apart by the tag.  The rates of the bracket  *)
(* table are whole percents, so a rate applied to a whole-dollar amount is *)
(* an exact number of cents; the incomes the model draws are whole         *)
(* dollars.  IEEE-754 rounding of the products is not modelled.            *)
(*                                                                         *)
(* A text is a sequence of lines; a line is a label (a sequence of words)  *)
(* followed by a value (a sequence of characters).  String.includes and    *)
(* the label part of a pattern are matched on whole words of the labels;   *)
(* the numeric part of a pattern, parseFloat, replace and toString work    *)
(* on the characters of the value.  Of the text mining of the Document     *)
(* AI route the wages and the federal tax withheld are modelled; names,    *)
(* identifiers and the Social Security and Medicare fields are left out.   *)
(*                                                                         *)
(* The database may reject any write of a request, the text extraction     *)
(* may throw, and each call of the vendor returns, rejects or times out.   *)
(*                                                                         *)
(* Spec runs one use of the library or of a route; FilingSpec runs a       *)
(* filing: a tax return, up to MaxDocuments documents and up to            *)
(* MaxRequests process and accept requests in any order.  Deduction        *)
(* entries are left out: no route creates an extracted entry of that type. *)
(***************************************************************************)
EXTENDS Integers, Sequences, FiniteSets, TLC

VARIABLES
    pc,              \* "idle", "collecting" (forms of a batch arrive), "uploaded",
                     \* "attempting", "waiting" (the retry loop), "done",
                     \* "filing" (a filing open to uploads and requests)
    calcArgs,        \* <<args>> of the calculateTaxReturn call made, <<>> before it
    calcResult,      \* <<what the call returned>>, <<>> before it
    extractedForms,  \* the batch of extracted forms handed to the mapper
    mapping,         \* what the calls of mapExtractedDataToIncomeEntries returned, in call order
    now,             \* the calendar year of the system clock
    document,        \* the rows of the uploaded documents, by id
    documentExtractedEntries,  \* the rows created for the documents' line items, by id
    response,        \* <<what the route answered>>, <<>> before it answers
    acquisition,     \* text acquisition in the request: "none", "failed" or "returned"
    rejectedWrites,  \* the writes the database rejected during the request
    result,          \* <<the document the vendor returned>>, <<>> before it returns
    attempts,        \* processDocument calls made by the retry loop
    waits,           \* 5-second waits of the retry loop
    taxReturns,      \* <<the row of the tax return of the filing>>, <<>> without a filing
    incomeEntryRows, \* the income entries of the tax return, by id
    requests         \* process and accept requests the filing has received

vars ==
    <<pc, calcArgs, calcResult, extractedForms, mapping, now, document,
      documentExtractedEntries, response, acquisition, rejectedWrites, result,
      attempts, waits, taxReturns, incomeEntryRows, requests>>

---------------------------------------------------------------------------
(* JavaScript values *)

Num(n) == [tag |-> "number", val |-> n]
NaN == [tag |-> "NaN", val |-> 0]
Undefined == [tag |-> "undefined", val |-> 0]

IsNum(x) == x.tag = "number"

\* Truthiness of a number-or-undefined value: 0, NaN and undefined are falsy.
Truthy(x) == IsNum(x) /\ x.val # 0

\* x > y, x <= y on JavaScript values: any comparison with NaN/undefined is false.
Gt(x, y) == IsNum(x) /\ IsNum(y) /\ x.val > y.val
Le(x, y) == IsNum(x) /\ IsNum(y) /\ x.val <= y.val

Add(x, y) == IF IsNum(x) /\ IsNum(y) THEN Num(x.val + y.val) ELSE NaN
Sub(x, y) == IF IsNum(x) /\ IsNum(y) THEN Num(x.val - y.val) ELSE NaN

\* x * (pct / 100)
Times(x, pct) == IF IsNum(x) THEN Num((x.val * pct) \div 100) ELSE NaN

\* Math.max(0, x): NaN when x is not a number
MathMax0(x) == IF IsNum(x) THEN (IF x.val > 0 THEN x ELSE Num(0)) ELSE NaN

\* whole dollars, and dollars with cents, as a number of cents
Usd(d) == Num(d * 100)
UsdC(d, c) == Num(d * 100 + c)

---------------------------------------------------------------------------
(* calculateTaxReturn *)

FilingStatuses ==
    {"SINGLE", "MARRIED_FILING_JOINTLY", "MARRIED_FILING_SEPARATELY", "HEAD_OF_HOUSEHOLD"}

\* the argument was left out of the call
Omitted == "(omitted)"

\* mutant: the deduction table with the joint figure under MARRIED_FILING_SEPARATELY
standardDeductionsMiskeyed(filingStatus) ==
    CASE filingStatus = "SINGLE" -> Usd(14600)
      [] filingStatus = "MARRIED_FILING_JOINTLY" -> Usd(29200)
      [] filingStatus = "MARRIED_FILING_SEPARATELY" -> Usd(29200)
      [] filingStatus = "HEAD_OF_HOUSEHOLD" -> Usd(21900)
      [] OTHER -> Undefined

\* 2024 standard deductions; a key the table lacks reads as undefined
standardDeductions(filingStatus) ==
    CASE filingStatus = "SINGLE" -> Usd(14600)
      [] filingStatus = "MARRIED_FILING_JOINTLY" -> Usd(29200)
      [] filingStatus = "MARRIED_FILING_SEPARATELY" -> Usd(14600)
      [] filingStatus = "HEAD_OF_HOUSEHOLD" -> Usd(21900)
      [] OTHER -> Undefined

\* mutant: the difference without Math.max(0, ...)
TaxableIncomeUnclamped(adjustedGrossIncome, standardDeduction) ==
    Sub(adjustedGrossIncome, standardDeduction)

\* taxableIncome = Math.max(0, adjustedGrossIncome - standardDeduction)
TaxableIncome(adjustedGrossIncome, standardDeduction) ==
    MathMax0(Sub(adjustedGrossIncome, standardDeduction))

\* mutant: the second bracket taxed at a flat 12% of the whole taxable income
SingleBracketTaxFlat(taxableIncome) ==
    IF Le(taxableIncome, Usd(11600)) THEN Times(taxableIncome, 10)
    ELSE IF Le(taxableIncome, Usd(47150)) THEN Times(taxableIncome, 12)
    ELSE IF Le(taxableIncome, Usd(100525))
        THEN Add(Usd(5426), Times(Sub(taxableIncome, Usd(47150)), 22))
    ELSE IF Le(taxableIncome, Usd(191950))
        THEN Add(UsdC(17168, 50), Times(Sub(taxableIncome, Usd(100525)), 24))
    ELSE IF Le(taxableIncome, Usd(243725))
        THEN Add(UsdC(39110, 50), Times(Sub(taxableIncome, Usd(191950)), 32))
    ELSE IF Le(taxableIncome, Usd(609350))
        THEN Add(UsdC(55678, 50), Times(Sub(taxableIncome, Usd(243725)), 35))
    ELSE Add(UsdC(183647, 25), Times(Sub(taxableIncome, Usd(609350)), 37))

\* 2024 tax brackets for single filers
SingleBracketTax(taxableIncome) ==
    IF Le(taxableIncome, Usd(11600)) THEN Times(taxableIncome, 10)
    ELSE IF Le(taxableIncome, Usd(47150))
        THEN Add(Usd(1160), Times(Sub(taxableIncome, Usd(11600)), 12))
    ELSE IF Le(taxableIncome, Usd(100525))
        THEN Add(Usd(5426), Times(Sub(taxableIncome, Usd(47150)), 22))
    ELSE IF Le(taxableIncome, Usd(191950))
        THEN Add(UsdC(17168, 50), Times(Sub(taxableIncome, Usd(100525)), 24))
    ELSE IF Le(taxableIncome, Usd(243725))
        THEN Add(UsdC(39110, 50), Times(Sub(taxableIncome, Usd(191950)), 32))
    ELSE IF Le(taxableIncome, Usd(609350))
        THEN Add(UsdC(55678, 50), Times(Sub(taxableIncome, Usd(243725)), 35))
    ELSE Add(UsdC(183647, 25), Times(Sub(taxableIncome, Usd(609350)), 37))

\* mutant: the SINGLE brackets applied whatever the filing status
TaxLiabilityAllStatuses(filingStatus, taxableIncome) ==
    SingleBracketTax(taxableIncome)

\* let tax = 0; if (filingStatus === 'SINGLE') { ... }
TaxLiability(filingStatus, taxableIncome) ==
    IF filingStatus = "SINGLE" THEN SingleBracketTax(taxableIncome) ELSE Num(0)

\* mutant: the refund test reversed
RefundAmountReversed(totalPayments, tax) ==
    IF Gt(tax, totalPayments) THEN Sub(tax, totalPayments) ELSE Num(0)

\* mutant: the amount owed without its guard
AmountOwedUnguarded(totalPayments, tax) == Sub(tax, totalPayments)

\* refundAmount / amountOwed from totalPayments and tax
RefundAmount(totalPayments, tax) ==
    IF Gt(totalPayments, tax) THEN Sub(totalPayments, tax) ELSE Num(0)

AmountOwed(totalPayments, tax) ==
    IF Gt(totalPayments, tax) THEN Num(0)
    ELSE IF Gt(tax, totalPayments) THEN Sub(tax, totalPayments)
    ELSE Num(0)

\* The function has three parameters; a fourth argument (an itemized
\* deduction) is accepted by the JavaScript call and never read.  No path
\* of the function throws.
calculateTaxReturn(args) ==
    LET totalIncome == args.totalIncome
        totalWithheldTax == args.totalWithheldTax
        filingStatus ==
            IF args.filingStatus = Omitted THEN "SINGLE" ELSE args.filingStatus
        adjustedGrossIncome == totalIncome
        standardDeduction == standardDeductions(filingStatus)
        taxableIncome == TaxableIncome(adjustedGrossIncome, standardDeduction)
        tax == TaxLiability(filingStatus, taxableIncome)
        totalPayments == totalWithheldTax
    IN  [ threw |-> FALSE,
          totalIncome |-> adjustedGrossIncome,
          adjustedGrossIncome |-> adjustedGrossIncome,
          standardDeduction |-> standardDeduction,
          taxableIncome |-> taxableIncome,
          taxLiability |-> tax,
          totalCredits |-> Num(0),
          refundAmount |-> RefundAmount(totalPayments, tax),
          amountOwed |-> AmountOwed(totalPayments, tax) ]

---------------------------------------------------------------------------
(* mapExtractedDataToIncomeEntries *)

\* An optional field (taxYear, payerName, payerTIN) is <<>> when the object
\* lacks it and <<v>> when it holds v.
Absent == <<>>
Some(v) == <<v>>

\* form.payerName ? ... : ...  -- an absent or empty string is falsy
TruthyString(opt) == opt # Absent /\ opt[1] # ""

\* form.amounts is an object: its entries [key, value] in insertion order.
RECURSIVE Get(_, _)
Get(amounts, key) ==
    IF amounts = <<>> THEN Undefined
    ELSE IF Head(amounts).key = key THEN Head(amounts).value
    ELSE Get(Tail(amounts), key)

\* `${label}${form.payerName ? ` from ${form.payerName}` : ''}`
Description(label, form) ==
    [text |-> label, from |-> IF TruthyString(form.payerName) THEN form.payerName ELSE Absent]

Entry(incomeType, label, amount, form) ==
    [ incomeType |-> incomeType,
      description |-> Description(label, form),
      amount |-> amount,
      payerName |-> form.payerName,
      payerTIN |-> form.payerTIN ]

\* mutant: the test >= 0 in place of > 0
PushIfNonNegative(incomeEntries, incomeType, label, field, form) ==
    LET amount == Get(form.amounts, field)
    IN  IF IsNum(amount) /\ amount.val >= 0
        THEN Append(incomeEntries, Entry(incomeType, label, amount, form))
        ELSE incomeEntries

\* if (form.amounts.<field> && form.amounts.<field> > 0) incomeEntries.push(...)
PushIfPositive(incomeEntries, incomeType, label, field, form) ==
    LET amount == Get(form.amounts, field)
    IN  IF Truthy(amount) /\ Gt(amount, Num(0))
        THEN Append(incomeEntries, Entry(incomeType, label, amount, form))
        ELSE incomeEntries

\* if (form.amounts.federalIncomeTaxWithheld) totalWithheldTax += ...
AddWithheld(totalWithheldTax, form) ==
    LET withheld == Get(form.amounts, "federalIncomeTaxWithheld")
    IN  IF Truthy(withheld) THEN Add(totalWithheldTax, withheld) ELSE totalWithheldTax

Case1099NEC(acc, form) ==
    [acc EXCEPT
        !.incomeEntries = PushIfPositive(@, "BUSINESS_INCOME",
            "1099-NEC: Nonemployee Compensation", "nonemployeeCompensation", form),
        !.totalWithheldTax = AddWithheld(@, form)]

Case1099INT(acc, form) ==
    [acc EXCEPT
        !.incomeEntries = PushIfPositive(@, "INTEREST",
            "1099-INT: Interest Income", "interestIncome", form),
        !.totalWithheldTax = AddWithheld(@, form)]

Case1099DIV(acc, form) ==
    [acc EXCEPT
        !.incomeEntries = PushIfPositive(
            PushIfPositive(@, "DIVIDENDS",
                "1099-DIV: Ordinary Dividends", "ordinaryDividends", form),
            "DIVIDENDS", "1099-DIV: Qualified Dividends", "qualifiedDividends", form),
        !.totalWithheldTax = AddWithheld(@, form)]

Case1099MISC(acc, form) ==
    [acc EXCEPT
        !.incomeEntries = PushIfPositive(
            PushIfPositive(@, "OTHER_INCOME", "1099-MISC: Rent Income", "rents", form),
            "OTHER_INCOME", "1099-MISC: Miscellaneous Income", "miscellaneousIncome", form),
        !.totalWithheldTax = AddWithheld(@, form)]

\* const taxableAmount = form.amounts.taxableAmount || form.amounts.grossDistribution || 0
RetirementTaxableAmount(form) ==
    LET taxable == Get(form.amounts, "taxableAmount")
        gross == Get(form.amounts, "grossDistribution")
    IN  IF Truthy(taxable) THEN taxable
        ELSE IF Truthy(gross) THEN gross
        ELSE Num(0)

Case1099R(acc, form) ==
    LET taxableAmount == RetirementTaxableAmount(form)
    IN  [acc EXCEPT
            !.incomeEntries =
                IF Gt(taxableAmount, Num(0))
                THEN Append(@, Entry("RETIREMENT_DISTRIBUTIONS",
                        "1099-R: Retirement Distribution", taxableAmount, form))
                ELSE @,
            !.totalWithheldTax = AddWithheld(@, form)]

\* mutant: the forEach without its test key !== 'federalIncomeTaxWithheld'
RECURSIVE PushUnknownEntriesAnyKey(_, _, _)
PushUnknownEntriesAnyKey(incomeEntries, amounts, form) ==
    IF amounts = <<>> THEN incomeEntries
    ELSE LET amount == Head(amounts).value
             pushed ==
                IF amount.tag \in {"number", "NaN"} /\ Gt(amount, Num(0))
                THEN Append(incomeEntries,
                        Entry("OTHER_INCOME", "Unknown Form: " \o Head(amounts).key, amount, form))
                ELSE incomeEntries
         IN  PushUnknownEntriesAnyKey(pushed, Tail(amounts), form)

\* Object.entries(form.amounts).forEach(([key, amount]) => ...)
RECURSIVE PushUnknownEntries(_, _, _)
PushUnknownEntries(incomeEntries, amounts, form) ==
    IF amounts = <<>> THEN incomeEntries
    ELSE LET key == Head(amounts).key
             amount == Head(amounts).value
             pushed ==
                IF amount.tag \in {"number", "NaN"} /\ Gt(amount, Num(0))
                   /\ key # "federalIncomeTaxWithheld"
                THEN Append(incomeEntries, Entry("OTHER_INCOME", "Unknown Form: " \o key, amount, form))
                ELSE incomeEntries
         IN  PushUnknownEntries(pushed, Tail(amounts), form)

\* mutant: the default branch without its withholding statement
CaseDefaultNoWithheld(acc, form) ==
    [acc EXCEPT !.incomeEntries = PushUnknownEntries(@, form.amounts, form)]

CaseDefault(acc, form) ==
    [acc EXCEPT
        !.incomeEntries = PushUnknownEntries(@, form.amounts, form),
        !.totalWithheldTax = AddWithheld(@, form)]

\* mutant: the latest year wins, whatever the order of the forms
SetTaxYearIfLater(acc, form) ==
    IF form.taxYear # Absent /\ form.taxYear[1] > acc.taxYear
    THEN [acc EXCEPT !.taxYear = form.taxYear[1]]
    ELSE acc

\* if (form.taxYear) { taxYear = form.taxYear }
SetTaxYear(acc, form) ==
    IF form.taxYear # Absent /\ form.taxYear[1] # 0
    THEN [acc EXCEPT !.taxYear = form.taxYear[1]]
    ELSE acc

\* the body of extractedForms.forEach(form => { ... })
ForEachForm(acc, form) ==
    LET withYear == SetTaxYear(acc, form)
    IN  CASE form.formType = "FORM_1099_NEC" -> Case1099NEC(withYear, form)
          [] form.formType = "FORM_1099_INT" -> Case1099INT(withYear, form)
          [] form.formType = "FORM_1099_DIV" -> Case1099DIV(withYear, form)
          [] form.formType = "FORM_1099_MISC" -> Case1099MISC(withYear, form)
          [] form.formType = "FORM_1099_R" -> Case1099R(withYear, form)
          [] OTHER -> CaseDefault(withYear, form)

RECURSIVE ForEach(_, _)
ForEach(acc, forms) ==
    IF forms = <<>> THEN acc ELSE ForEach(ForEachForm(acc, Head(forms)), Tail(forms))

\* new Date().getFullYear() when a run starts
CurrentYear == 2026

\* mutant: the accumulators kept at module level, so that a call starts from
\* what the call before it left
CarriedAccumulators(year) ==
    IF mapping = <<>>
    THEN [ incomeEntries |-> <<>>, totalWithheldTax |-> Num(0), taxYear |-> year - 1 ]
    ELSE [ incomeEntries |-> mapping[Len(mapping)].incomeEntries,
           totalWithheldTax |-> mapping[Len(mapping)].withheldTax,
           taxYear |-> mapping[Len(mapping)].taxYear ]

\* const incomeEntries = []; let totalWithheldTax = 0;
\* let taxYear = new Date().getFullYear() - 1
FreshAccumulators(year) ==
    [ incomeEntries |-> <<>>, totalWithheldTax |-> Num(0), taxYear |-> year - 1 ]

\* year: what new Date().getFullYear() returns during the call
mapExtractedDataToIncomeEntries(forms, year) ==
    LET acc == ForEach(FreshAccumulators(year), forms)
    IN  [ incomeEntries |-> acc.incomeEntries,
          withheldTax |-> acc.totalWithheldTax,
          taxYear |-> acc.taxYear ]

---------------------------------------------------------------------------
(* Text: lib/tax-form-ocr *)

\* A text is a sequence of lines.  A line is a record [label, value]: label
\* is the words of a field label or form code (<<>> on a line that holds a
\* value only) and value the characters that follow it on the line (<<>>
\* when nothing follows).  A string is matched word by word in labels and
\* character by character in values.

Digits == <<"0", "1", "2", "3", "4", "5", "6", "7", "8", "9">>

IsDigit(c) == \E i \in 1..10 : Digits[i] = c

DigitValue(c) == (CHOOSE i \in 1..10 : Digits[i] = c) - 1

\* the number a string of digits denotes
RECURSIVE NatOf(_)
NatOf(chars) ==
    IF chars = <<>> THEN 0
    ELSE NatOf(SubSeq(chars, 1, Len(chars) - 1)) * 10 + DigitValue(chars[Len(chars)])

\* the length of the longest prefix of digits: \d*
RECURSIVE LeadingDigits(_)
LeadingDigits(chars) ==
    IF chars # <<>> /\ IsDigit(Head(chars)) THEN 1 + LeadingDigits(Tail(chars)) ELSE 0

\* the length of the longest prefix of digits and commas: [\d,]*
RECURSIVE LeadingDigitsAndCommas(_)
LeadingDigitsAndCommas(chars) ==
    IF chars # <<>> /\ (IsDigit(Head(chars)) \/ Head(chars) = ",")
    THEN 1 + LeadingDigitsAndCommas(Tail(chars))
    ELSE 0

\* str.replace(/,/g, '')
RemoveCommas(chars) ==
    LET NotComma(c) == c # "," IN SelectSeq(chars, NotComma)

\* parseFloat(str) for a string of digits, commas and points: the longest
\* prefix \d*(\.\d*)? holding a digit, in cents (the values of the model
\* have at most two decimals); NaN when that prefix holds no digit
parseFloat(chars) ==
    LET n == LeadingDigits(chars)
        rest == SubSeq(chars, n + 1, Len(chars))
        m == IF rest # <<>> /\ Head(rest) = "." THEN LeadingDigits(Tail(rest)) ELSE 0
        frac == SubSeq(rest, 2, m + 1)
        cents == IF m = 0 THEN 0
                 ELSE IF m = 1 THEN DigitValue(frac[1]) * 10
                 ELSE DigitValue(frac[1]) * 10 + DigitValue(frac[2])
    IN  IF n = 0 /\ m = 0 THEN NaN
        ELSE Num(NatOf(SubSeq(chars, 1, n)) * 100 + cents)

\* the capture of ([\d,]+\.?\d*) at the start of chars; <<>> when it does
\* not match
CaptureAmount(chars) ==
    LET n == LeadingDigitsAndCommas(chars)
        rest == SubSeq(chars, n + 1, Len(chars))
    IN  IF n = 0 THEN <<>>
        ELSE IF rest # <<>> /\ Head(rest) = "."
        THEN SubSeq(chars, 1, n + 1 + LeadingDigits(Tail(rest)))
        ELSE SubSeq(chars, 1, n)

\* the characters as a string
RECURSIVE Join(_)
Join(chars) == IF chars = <<>> THEN "" ELSE Head(chars) \o Join(Tail(chars))

\* phrase occurs in words, word for word
Occurs(phrase, words) ==
    \E i \in 0..(Len(words) - Len(phrase)) : SubSeq(words, i + 1, i + Len(phrase)) = phrase

\* text.includes(phrase)
Includes(text, phrase) == \E i \in 1..Len(text) : Occurs(phrase, text[i].label)

\* the index of the first line that carries the label; 0 when none does
LineOf(text, label) ==
    IF \E i \in 1..Len(text) : text[i].label = label
    THEN CHOOSE i \in 1..Len(text) :
            text[i].label = label /\ \A j \in 1..(i - 1) : text[j].label # label
    ELSE 0

\* the characters that follow a label up to the next label: those on its
\* line or, when there are none, those of a next line without a label
\* ([\s\$]* runs over the line break)
After(text, i) ==
    IF text[i].value # <<>> THEN text[i].value
    ELSE IF i < Len(text) /\ text[i + 1].label = <<>> THEN text[i + 1].value
    ELSE <<>>

\* text.match(/<label>[\s\$]*([\d,]+\.?\d*)/i): the capture, <<>> when
\* there is no match
MatchAmount(text, label) ==
    LET i == LineOf(text, label)
    IN  IF i = 0 THEN <<>> ELSE CaptureAmount(After(text, i))

\* if (match) data.amounts.<key> = parseFloat(match[1].replace(/,/g, ''))
RECURSIVE ParseAmounts(_, _)
ParseAmounts(text, fields) ==
    IF fields = <<>> THEN <<>>
    ELSE LET match == MatchAmount(text, Head(fields).label)
         IN  (IF match = <<>> THEN <<>>
              ELSE << [key |-> Head(fields).key, value |-> parseFloat(RemoveCommas(match))] >>)
             \o ParseAmounts(text, Tail(fields))

\* the first match of /20\d{2}/ in a string of characters, as a number; 0
\* when there is none
FirstYearIn(chars) ==
    LET IsYearAt(i) ==
            /\ chars[i] = "2" /\ chars[i + 1] = "0"
            /\ IsDigit(chars[i + 2]) /\ IsDigit(chars[i + 3])
        at == { i \in 1..(Len(chars) - 3) : IsYearAt(i) }
    IN  IF at = {} THEN 0
        ELSE LET i == CHOOSE i \in at : \A j \in at : i <= j
             IN  NatOf(SubSeq(chars, i, i + 3))

\* const yearMatch = text.match(/20\d{2}/);
\* if (yearMatch) data.taxYear = parseInt(yearMatch[0])
\* (no label of the forms holds a year)
RECURSIVE ParseTaxYear(_)
ParseTaxYear(text) ==
    IF text = <<>> THEN Absent
    ELSE IF FirstYearIn(Head(text).value) # 0 THEN Some(FirstYearIn(Head(text).value))
    ELSE ParseTaxYear(Tail(text))

\* text.match(/PAYER'S name[,\s]*(.+?)(?:\n|TIN)/i): the rest of the line
ParsePayerName(text) ==
    LET i == LineOf(text, <<"PAYER'S", "name">>)
    IN  IF i = 0 \/ text[i].value = <<>> THEN Absent ELSE Some(Join(text[i].value))

\* \d{2}-\d{7} at the start of chars
IsTIN(chars) ==
    /\ Len(chars) >= 10
    /\ \A i \in {1, 2} \cup 4..10 : IsDigit(chars[i])
    /\ chars[3] = "-"

\* text.match(/PAYER'S TIN[:\s]*(\d{2}-\d{7})/i)
ParsePayerTIN(text) ==
    LET i == LineOf(text, <<"PAYER'S", "TIN">>)
    IN  IF i = 0 \/ ~IsTIN(text[i].value) THEN Absent
        ELSE Some(Join(SubSeq(text[i].value, 1, 10)))

FederalTaxField ==
    [key |-> "federalIncomeTaxWithheld", label |-> <<"Federal", "income", "tax", "withheld">>]

parse1099NEC(text) ==
    [ formType |-> "FORM_1099_NEC",
      taxYear |-> ParseTaxYear(text),
      payerName |-> ParsePayerName(text),
      payerTIN |-> ParsePayerTIN(text),
      amounts |-> ParseAmounts(text,
        << [key |-> "nonemployeeCompensation", label |-> <<"Nonemployee", "compensation">>],
           FederalTaxField >>),
      rawText |-> text ]

parse1099INT(text) ==
    [ formType |-> "FORM_1099_INT",
      taxYear |-> ParseTaxYear(text),
      payerName |-> ParsePayerName(text),
      payerTIN |-> ParsePayerTIN(text),
      amounts |-> ParseAmounts(text,
        << [key |-> "interestIncome", label |-> <<"Interest", "income">>],
           FederalTaxField >>),
      rawText |-> text ]

\* /(?:Total )?ordinary dividends.../ matches the label with or without Total
parse1099DIV(text) ==
    [ formType |-> "FORM_1099_DIV",
      taxYear |-> ParseTaxYear(text),
      payerName |-> ParsePayerName(text),
      payerTIN |-> ParsePayerTIN(text),
      amounts |-> ParseAmounts(text,
        << [key |-> "ordinaryDividends", label |-> <<"Total", "ordinary", "dividends">>],
           [key |-> "qualifiedDividends", label |-> <<"Qualified", "dividends">>],
           FederalTaxField >>),
      rawText |-> text ]

parse1099MISC(text) ==
    [ formType |-> "FORM_1099_MISC",
      taxYear |-> ParseTaxYear(text),
      payerName |-> Absent,
      payerTIN |-> Absent,
      amounts |-> ParseAmounts(text,
        << [key |-> "miscellaneousIncome", label |-> <<"Miscellaneous", "income">>],
           [key |-> "rents", label |-> <<"Rents">>],
           FederalTaxField >>),
      rawText |-> text ]

parse1099R(text) ==
    [ formType |-> "FORM_1099_R",
      taxYear |-> ParseTaxYear(text),
      payerName |-> Absent,
      payerTIN |-> Absent,
      amounts |-> ParseAmounts(text,
        << [key |-> "grossDistribution", label |-> <<"Gross", "distribution">>],
           [key |-> "taxableAmount", label |-> <<"Taxable", "amount">>],
           FederalTaxField >>),
      rawText |-> text ]

\* return { formType: 'UNKNOWN', amounts: {}, rawText: text }
UnknownForm(text) ==
    [ formType |-> "UNKNOWN", taxYear |-> Absent, payerName |-> Absent,
      payerTIN |-> Absent, amounts |-> <<>>, rawText |-> text ]

\* mutant: the interest test ahead of the nonemployee-compensation test
extractDataFromTaxFormIntFirst(text) ==
    IF Includes(text, <<"1099-INT">>) \/ Includes(text, <<"Interest", "income">>)
    THEN parse1099INT(text)
    ELSE IF Includes(text, <<"1099-NEC">>) \/ Includes(text, <<"Nonemployee", "compensation">>)
    THEN parse1099NEC(text)
    ELSE IF Includes(text, <<"1099-DIV">>) \/ Includes(text, <<"dividends">>)
    THEN parse1099DIV(text)
    ELSE IF Includes(text, <<"1099-MISC">>) \/ Includes(text, <<"Miscellaneous", "income">>)
    THEN parse1099MISC(text)
    ELSE IF Includes(text, <<"1099-R">>) \/ Includes(text, <<"distribution">>)
    THEN parse1099R(text)
    ELSE UnknownForm(text)

\* extractDataFromTaxForm once extractTextFromPDF / extractTextFromImage has
\* returned text
extractDataFromTaxForm(text) ==
    IF Includes(text, <<"1099-NEC">>) \/ Includes(text, <<"Nonemployee", "compensation">>)
    THEN parse1099NEC(text)
    ELSE IF Includes(text, <<"1099-INT">>) \/ Includes(text, <<"Interest", "income">>)
    THEN parse1099INT(text)
    ELSE IF Includes(text, <<"1099-DIV">>) \/ Includes(text, <<"dividends">>)
    THEN parse1099DIV(text)
    ELSE IF Includes(text, <<"1099-MISC">>) \/ Includes(text, <<"Miscellaneous", "income">>)
    THEN parse1099MISC(text)
    ELSE IF Includes(text, <<"1099-R">>) \/ Includes(text, <<"distribution">>)
    THEN parse1099R(text)
    ELSE UnknownForm(text)

---------------------------------------------------------------------------
(* Upload and the process route: api/tax-forms *)

\* fileName.toLowerCase(), part by part
ToLowerCase(part) ==
    CASE part = "1099-NEC" -> "1099-nec"
      [] part = "W2" -> "w2"
      [] OTHER -> part

\* lowerName.includes(hint): a file name is the sequence of its parts
NameIncludes(fileName, hint) ==
    \E i \in 1..Len(fileName) : ToLowerCase(fileName[i]) = hint

detectDocumentType(fileName) ==
    IF NameIncludes(fileName, "1099-nec") \/ NameIncludes(fileName, "1099nec")
    THEN "FORM_1099_NEC"
    ELSE IF NameIncludes(fileName, "1099-int") \/ NameIncludes(fileName, "1099int")
    THEN "FORM_1099_INT"
    ELSE IF NameIncludes(fileName, "1099-div") \/ NameIncludes(fileName, "1099div")
    THEN "FORM_1099_DIV"
    ELSE IF NameIncludes(fileName, "1099-misc") \/ NameIncludes(fileName, "1099misc")
    THEN "FORM_1099_MISC"
    ELSE IF NameIncludes(fileName, "1099-r") \/ NameIncludes(fileName, "1099r")
    THEN "FORM_1099_R"
    ELSE IF NameIncludes(fileName, "1099-g") \/ NameIncludes(fileName, "1099g")
    THEN "FORM_1099_G"
    ELSE IF NameIncludes(fileName, "w2") \/ NameIncludes(fileName, "w-2")
    THEN "W2"
    ELSE "OTHER_TAX_DOCUMENT"

\* the ocrText column: null, a text, or the message of a failure
NoOcrText == [kind |-> "null", text |-> <<>>, message |-> ""]
OcrText(text) == [kind |-> "text", text |-> text, message |-> ""]
OcrFailure(message) ==
    [kind |-> "message", text |-> <<>>, message |-> "Processing failed: " \o message]

\* prisma.document.create({ data: { ..., processingStatus: PENDING } })
NewDocument(file) ==
    [ fileName |-> file.fileName,
      fileType |-> file.fileType,
      documentType |-> detectDocumentType(file.fileName),
      processingStatus |-> "PENDING",
      ocrText |-> NoOcrText,
      extractedData |-> Absent ]

\* the error extractTextFromPDF / extractTextFromImage throws
ExtractionError(fileType) ==
    IF fileType = "application/pdf" THEN "Failed to extract text from PDF"
    ELSE "Failed to extract text from image"

\* the error of a write the database rejects
DatabaseError == "database write rejected"

\* the outer catch: { message: 'Internal server error' }, status 500
InternalServerError ==
    [ route |-> "tax-forms/process", status |-> 500, message |-> "Internal server error", error |-> "",
      extractedData |-> Absent, extractedEntries |-> <<>>, withheldTax |-> Undefined ]

ProcessingFailed(error) ==
    [ route |-> "tax-forms/process", status |-> 500, message |-> "Failed to process document", error |-> error,
      extractedData |-> Absent, extractedEntries |-> <<>>, withheldTax |-> Undefined ]

ProcessedSuccessfully(extractedData, extractedEntries, withheldTax) ==
    [ route |-> "tax-forms/process", status |-> 200,
      message |-> "Document processed successfully", error |-> "",
      extractedData |-> Some(extractedData), extractedEntries |-> extractedEntries,
      withheldTax |-> withheldTax ]

\* catch (processingError): the document is marked FAILED and the error
\* returned; when that write is rejected too, the outer catch answers.
\*   failed: the writes rejected before; rejected: those the database rejects
CatchProcessingError(doc, error, failed, rejected) ==
    IF "FAILED" \in rejected
    THEN [ document |-> doc, entries |-> <<>>, response |-> InternalServerError,
           rejected |-> failed \cup {"FAILED"} ]
    ELSE [ document |-> [doc EXCEPT !.processingStatus = "FAILED",
                                    !.ocrText = OcrFailure(error)],
           entries |-> <<>>,
           response |-> ProcessingFailed(error),
           rejected |-> failed ]

IncomeRow(entry) ==
    [ entryType |-> "INCOME", extractedData |-> entry,
      isAccepted |-> FALSE, isEdited |-> FALSE ]

WithholdingRow(withheldTax) ==
    [ entryType |-> "WITHHOLDING",
      extractedData |-> [description |-> "Federal Income Tax Withheld", amount |-> withheldTax],
      isAccepted |-> FALSE, isEdited |-> FALSE ]

\* the rows of the income entries, and with them the row of the tax
\* withheld when there is any
IncomeRows(mappedData) ==
    [i \in 1..Len(mappedData.incomeEntries) |-> IncomeRow(mappedData.incomeEntries[i])]

RowsOf(mappedData) ==
    IF Gt(mappedData.withheldTax, Num(0))
    THEN Append(IncomeRows(mappedData), WithholdingRow(mappedData.withheldTax))
    ELSE IncomeRows(mappedData)

\* data: { ocrText, extractedData, processingStatus: COMPLETED }
Completed(processing, extractedData) ==
    [processing EXCEPT !.ocrText = OcrText(extractedData.rawText),
                       !.extractedData = Some(extractedData),
                       !.processingStatus = "COMPLETED"]

\* what a request leaves when it fails after rows were created: the catch
\* block deletes none of them
StoredBefore(rows, caught) == [caught EXCEPT !.entries = rows]

\* the try block from the return of the extraction on.  "ENTRY" rejects the
\* creation of the rows from the first on, "WITHHOLDING" that of the row of
\* the tax withheld, after the income rows are stored.
SaveExtracted(processing, extractedData, mappedData, rejected) ==
    IF "COMPLETED" \in rejected
    THEN CatchProcessingError(processing, DatabaseError, {"COMPLETED"}, rejected)
    ELSE IF RowsOf(mappedData) # <<>> /\ "ENTRY" \in rejected
    THEN CatchProcessingError(Completed(processing, extractedData), DatabaseError,
                              {"ENTRY"}, rejected)
    ELSE IF Gt(mappedData.withheldTax, Num(0)) /\ "WITHHOLDING" \in rejected
    THEN StoredBefore(IncomeRows(mappedData),
                      CatchProcessingError(Completed(processing, extractedData),
                                           DatabaseError, {"WITHHOLDING"}, rejected))
    ELSE [ document |-> Completed(processing, extractedData),
           entries |-> RowsOf(mappedData),
           response |-> ProcessedSuccessfully(extractedData, IncomeRows(mappedData),
                                              mappedData.withheldTax),
           rejected |-> {} ]

MapAndSave(processing, extractedData, rejected, year) ==
    SaveExtracted(processing, extractedData,
                  mapExtractedDataToIncomeEntries(<<extractedData>>, year), rejected)

Processing(doc) == [doc EXCEPT !.processingStatus = "PROCESSING"]

\* POST of the process route for a document of the caller.
\*   acquired: what text extraction did, [threw, text]
\*   rejected: the writes the database rejects during the request
\*   year:     the calendar year of the clock
ProcessRoute(doc, acquired, rejected, year) ==
    IF "PROCESSING" \in rejected
    THEN [ document |-> doc, entries |-> <<>>, response |-> InternalServerError,
           rejected |-> {"PROCESSING"} ]
    ELSE IF acquired.threw
    THEN CatchProcessingError(Processing(doc), ExtractionError(doc.fileType), {}, rejected)
    ELSE MapAndSave(Processing(doc), extractDataFromTaxForm(acquired.text), rejected, year)

---------------------------------------------------------------------------
(* The accept-entries route and recalculateTaxReturn *)

\* the row of the tax return of a filing before any entry is accepted
NewTaxReturn(filingStatus) ==
    [ filingStatus |-> filingStatus,
      totalIncome |-> Num(0),
      adjustedGrossIncome |-> Num(0),
      standardDeduction |-> Num(0),
      itemizedDeduction |-> Num(0),
      taxableIncome |-> Num(0),
      taxLiability |-> Num(0),
      refundAmount |-> Num(0),
      amountOwed |-> Num(0) ]

\* the rows of a request as the table holds them: each with the document it
\* belongs to and no income entry linked
Stored(documentId, rows) ==
    [ i \in 1..Len(rows) |->
        [ documentId |-> documentId,
          entryType |-> rows[i].entryType,
          extractedData |-> rows[i].extractedData,
          isAccepted |-> rows[i].isAccepted,
          isEdited |-> rows[i].isEdited,
          incomeEntryId |-> 0 ] ]

\* entries.reduce((sum, entry) => sum + Number(entry.amount), 0)
RECURSIVE TotalAmount(_)
TotalAmount(entries) ==
    IF entries = <<>> THEN Num(0)
    ELSE Add(TotalAmount(SubSeq(entries, 1, Len(entries) - 1)), entries[Len(entries)].amount)

\* Math.max(x, y)
MathMax(x, y) == IF IsNum(x) /\ IsNum(y) THEN (IF x.val >= y.val THEN x ELSE y) ELSE NaN

\* standardDeductions[taxReturn.filingStatus] || 14600
StandardDeductionOrDefault(filingStatus) ==
    IF Truthy(standardDeductions(filingStatus)) THEN standardDeductions(filingStatus)
    ELSE Usd(14600)

\* taxLiability <= 0 ? Math.abs(taxLiability) : 0
RefundWithoutWithholding(taxLiability) ==
    IF Le(taxLiability, Num(0)) THEN Num(0 - taxLiability.val) ELSE Num(0)

\* taxLiability > 0 ? taxLiability : 0
OwedWithoutWithholding(taxLiability) ==
    IF Gt(taxLiability, Num(0)) THEN taxLiability ELSE Num(0)

\* recalculateTaxReturn(taxReturnId): the totals of the entries of the tax
\* return, and the row updated with what follows from them.  The brackets
\* of part_006:169-185 are those of calculateTaxReturn, figure for figure.
recalculateTaxReturn(taxReturn, incomeEntries, deductionEntries) ==
    LET totalIncome == TotalAmount(incomeEntries)
        totalDeductions == TotalAmount(deductionEntries)
        adjustedGrossIncome == totalIncome
        standardDeduction == StandardDeductionOrDefault(taxReturn.filingStatus)
        itemizedDeduction == totalDeductions
        deduction == MathMax(standardDeduction, itemizedDeduction)
        taxableIncome == MathMax0(Sub(adjustedGrossIncome, deduction))
        taxLiability == TaxLiability(taxReturn.filingStatus, taxableIncome)
    IN  [ filingStatus |-> taxReturn.filingStatus,
          totalIncome |-> totalIncome,
          adjustedGrossIncome |-> adjustedGrossIncome,
          standardDeduction |-> standardDeduction,
          itemizedDeduction |-> itemizedDeduction,
          taxableIncome |-> taxableIncome,
          taxLiability |-> taxLiability,
          refundAmount |-> RefundWithoutWithholding(taxLiability),
          amountOwed |-> OwedWithoutWithholding(taxLiability) ]

\* edits: the entry the reviewer edited and the amount typed, id 0 when no
\* entry was edited
NoEdits == [id |-> 0, amount |-> Undefined]

\* finalData = { ...finalData, ...edits[extractedEntry.id] }
FinalData(row, id, edits) ==
    IF edits.id = id THEN [row.extractedData EXCEPT !.amount = edits.amount]
    ELSE row.extractedData

\* the extracted entry linked to the income entry created from it
Linked(row, id, edits, incomeEntryId) ==
    [row EXCEPT !.incomeEntryId = incomeEntryId, !.isAccepted = TRUE,
                !.isEdited = (edits.id = id)]

\* one turn of the loop over the entries found: an INCOME entry creates an
\* income entry and is linked to it; a WITHHOLDING entry creates nothing
\* (the DEDUCTION branch is not modelled: no route creates such an entry)
AcceptOne(tables, id, edits) ==
    IF tables.rows[id].entryType = "INCOME"
    THEN [ rows |-> [tables.rows EXCEPT
                        ![id] = Linked(tables.rows[id], id, edits,
                                       Len(tables.incomeEntries) + 1)],
           incomeEntries |-> Append(tables.incomeEntries,
                                    FinalData(tables.rows[id], id, edits)),
           created |-> tables.created + 1 ]
    ELSE tables

\* for (const extractedEntry of extractedEntries) { ... }, in id order
RECURSIVE AcceptEach(_, _, _, _)
AcceptEach(tables, id, ids, edits) ==
    IF id > Len(tables.rows) THEN tables
    ELSE AcceptEach(IF id \in ids THEN AcceptOne(tables, id, edits) ELSE tables,
                    id + 1, ids, edits)

EntriesAccepted(created) ==
    [ route |-> "accept-entries", status |-> 200,
      message |-> "Entries accepted and created successfully", created |-> created ]

AcceptFailed ==
    [ route |-> "accept-entries", status |-> 500,
      message |-> "Internal server error", created |-> 0 ]

\* the request once the loop has run: the totals recalculated and the answer
Accepted(tables, taxReturn) ==
    [ rows |-> tables.rows,
      incomeEntries |-> tables.incomeEntries,
      taxReturn |-> recalculateTaxReturn(taxReturn, tables.incomeEntries, <<>>),
      response |-> EntriesAccepted(tables.created) ]

\* POST of the accept-entries route with the ids of extracted entries of
\* the caller.  No id: extractedEntries[0] is undefined and the read of its
\* document throws, which the catch answers with 500.
AcceptEntriesRoute(rows, incomeEntries, taxReturn, ids, edits) ==
    IF ids = {}
    THEN [ rows |-> rows, incomeEntries |-> incomeEntries, taxReturn |-> taxReturn,
           response |-> AcceptFailed ]
    ELSE Accepted(AcceptEach([rows |-> rows, incomeEntries |-> incomeEntries, created |-> 0],
                             1, ids, edits),
                  taxReturn)

---------------------------------------------------------------------------
(* The Document AI route: processWithGoogleDocumentAI *)

maxAttempts == 3

\* mutant: the test of the last attempt against one attempt more
RethrowsAfterOneMore(n) == n = maxAttempts + 1

\* if (attempts === maxAttempts) { throw attemptError }
Rethrows(n) == n = maxAttempts

\* the digits of a natural number
RECURSIVE DigitsOf(_)
DigitsOf(n) ==
    IF n < 10 THEN <<Digits[n + 1]>> ELSE Append(DigitsOf(n \div 10), Digits[(n % 10) + 1])

\* amount.toString() of a non-negative number of cents: no trailing zeros
\* and no point without decimals
NumberToString(x) ==
    LET whole == DigitsOf(x.val \div 100)
        cents == x.val % 100
    IN  IF cents = 0 THEN whole
        ELSE IF cents % 10 = 0 THEN whole \o <<".", Digits[(cents \div 10) + 1]>>
        ELSE whole \o <<".", Digits[(cents \div 10) + 1], Digits[(cents % 10) + 1]>>

\* extractedData is an object: its entries [key, value], a value a string
HasField(data, key) == \E i \in 1..Len(data) : data[i].key = key

Field(data, key) == data[CHOOSE i \in 1..Len(data) : data[i].key = key].value

\* extractedData[key] = value
Put(data, key, value) ==
    IF HasField(data, key)
    THEN [i \in 1..Len(data) |-> IF data[i].key = key THEN [key |-> key, value |-> value] ELSE data[i]]
    ELSE Append(data, [key |-> key, value |-> value])

\* fieldMapping[entity.type.toLowerCase()] || entity.type
FieldName(type) ==
    CASE type = "employee_name" -> "employeeName"
      [] type = "employee_address" -> "employeeAddress"
      [] type = "employee_ssn" -> "employeeSSN"
      [] type = "employer_name" -> "employerName"
      [] type = "employer_address" -> "employerAddress"
      [] type = "employer_ein" -> "employerEIN"
      [] type = "wages_tips_other_compensation" -> "wages"
      [] type = "federal_income_tax_withheld" -> "federalTaxWithheld"
      [] type = "social_security_wages" -> "socialSecurityWages"
      [] type = "social_security_tax_withheld" -> "socialSecurityTaxWithheld"
      [] type = "medicare_wages_and_tips" -> "medicareWages"
      [] type = "medicare_tax_withheld" -> "medicareTaxWithheld"
      [] type = "state_wages_tips_etc" -> "stateWages"
      [] type = "state_income_tax" -> "stateTaxWithheld"
      [] type = "amount" -> "amount"
      [] type = "date" -> "date"
      [] type = "total" -> "total"
      [] OTHER -> type

\* fieldName.includes('wages') || fieldName.includes('Tax') ||
\* fieldName.includes('amount'), for the field names of the mapping
IsMonetaryName(fieldName) ==
    fieldName \in { "wages", "federalTaxWithheld", "socialSecurityTaxWithheld",
                    "medicareTaxWithheld", "stateTaxWithheld", "amount" }

\* value.replace(/[,$]/g, '')
RemoveCommasAndDollars(chars) ==
    LET Kept(c) == c # "," /\ c # "$" IN SelectSeq(chars, Kept)

\* entities.forEach(entity => { ... })
RECURSIVE MapEntities(_, _)
MapEntities(data, entities) ==
    IF entities = <<>> THEN data
    ELSE LET entity == Head(entities)
             fieldName == FieldName(entity.type)
             value == IF entity.normalizedText # <<>> THEN entity.normalizedText
                      ELSE entity.mentionText
             cleaned == IF IsMonetaryName(fieldName) THEN RemoveCommasAndDollars(value)
                        ELSE value
         IN  MapEntities(
                IF entity.type # "" /\ entity.mentionText # <<>>
                THEN Put(data, fieldName, cleaned) ELSE data,
                Tail(entities))

WagesLabel == <<"Wages,", "tips,", "other", "compensation">>
FederalTaxLabel == <<"Federal", "income", "tax", "withheld">>

\* the values of the lines from line i on, one after the other
RECURSIVE ValuesFrom(_, _)
ValuesFrom(text, i) ==
    IF i > Len(text) THEN <<>> ELSE text[i].value \o <<"\n">> \o ValuesFrom(text, i + 1)

\* [^0-9]*
RECURSIVE SkipNonDigits(_)
SkipNonDigits(chars) ==
    IF chars # <<>> /\ ~IsDigit(Head(chars)) THEN SkipNonDigits(Tail(chars)) ELSE chars

\* the capture of ([0-9]+\.?[0-9]*) at the start of chars
CaptureNumber(chars) ==
    LET n == LeadingDigits(chars)
        rest == SubSeq(chars, n + 1, Len(chars))
    IN  IF n = 0 THEN <<>>
        ELSE IF rest # <<>> /\ Head(rest) = "."
        THEN SubSeq(chars, 1, n + 1 + LeadingDigits(Tail(rest)))
        ELSE SubSeq(chars, 1, n)

\* ocrText.match(/<label>\s*[^0-9]*([0-9]+\.?[0-9]*)/i): the first number
\* after the first occurrence of the label, on its line or further down
\* (the labels of a W-2 hold no digit); <<>> when there is no match
MatchNumberAfter(text, label) ==
    LET i == LineOf(text, label)
    IN  IF i = 0 THEN <<>> ELSE CaptureNumber(SkipNonDigits(ValuesFrom(text, i)))

\* /^[0-9]+\.?[0-9]*$/.test(line.trim())
IsNumericLine(line) ==
    /\ line.label = <<>>
    /\ line.value # <<>>
    /\ CaptureNumber(line.value) = line.value

\* the first of the up to three lines after the line of the label that is
\* a number within [low, high]; NaN when there is none
PositionalScan(text, label, low, high) ==
    LET at == LineOf(text, label)
        Fits(i) ==
            /\ IsNumericLine(text[i])
            /\ Le(low, parseFloat(RemoveCommas(text[i].value)))
            /\ Le(parseFloat(RemoveCommas(text[i].value)), high)
        found == IF at = 0 THEN {}
                 ELSE { i \in (at + 1)..(at + 3) : i <= Len(text) /\ Fits(i) }
    IN  IF found = {} THEN NaN
        ELSE parseFloat(RemoveCommas(text[CHOOSE i \in found : \A j \in found : i <= j].value))

\* ocrText.match(/\b\d{1,3}(?:,?\d{3})*\.?\d{0,2}\b/g) mapped through
\* parseFloat(amt.replace(/,/g, '')): the texts of the model hold values
\* that the pattern matches as a whole
NumericAmounts(text) ==
    { parseFloat(RemoveCommas(text[i].value)) :
        i \in { j \in 1..Len(text) : \E k \in 1..Len(text[j].value) : IsDigit(text[j].value[k]) } }

\* the greatest of a non-empty set of numbers
Greatest(amounts) == CHOOSE a \in amounts : \A b \in amounts : b.val <= a.val

\* amt.toString().match(/^[0-9]{7,}$/)
IsLongInteger(amt) == NumberToString(amt) = DigitsOf(amt.val \div 100) /\ Len(NumberToString(amt)) >= 7

\* the amount when it is a number within [low, high], NaN otherwise
InRange(amount, low, high) ==
    IF IsNum(amount) /\ Le(low, amount) /\ Le(amount, high) THEN amount ELSE NaN

\* parseFloat(match[1].replace(/,/g, '')) of a match, NaN without a match
AmountOfMatch(match) == IF match = <<>> THEN NaN ELSE parseFloat(RemoveCommas(match))

\* the first of two results that is a number
FirstFound(a, b) == IF IsNum(a) THEN a ELSE b

\* Pattern 1: the amount after "Wages, tips, other compensation"
WagesByContext(text) ==
    InRange(AmountOfMatch(MatchNumberAfter(text, WagesLabel)), Usd(1000), Usd(1000000))

\* Pattern 3: the largest amount of the text that passes the filter
WagesByFallback(text) ==
    LET numericAmounts ==
            { amt \in NumericAmounts(text) :
                /\ IsNum(amt)
                /\ Le(Usd(1000), amt) /\ Le(amt, Usd(500000))
                /\ Len(NumberToString(amt)) <= 8
                /\ ~IsLongInteger(amt) }
    IN  IF numericAmounts = {} THEN NaN ELSE Greatest(numericAmounts)

\* Strategy 3: the wages found, NaN when no pattern finds any
MineWages(text) ==
    FirstFound(WagesByContext(text),
               FirstFound(PositionalScan(text, WagesLabel, Usd(1000), Usd(1000000)),
                          WagesByFallback(text)))

\* Pattern 1: the amount after "Federal income tax withheld"
FederalTaxByContext(text) ==
    InRange(AmountOfMatch(MatchNumberAfter(text, FederalTaxLabel)), Usd(0), Usd(100000))

\* Pattern 3: the largest amount below the wages and at most half of them
FederalTaxByWages(text, wages) ==
    LET wageValue == parseFloat(wages)
        taxCandidates ==
            { amt \in NumericAmounts(text) :
                /\ IsNum(amt)
                /\ Gt(amt, Usd(0))
                /\ Gt(wageValue, amt)
                /\ Le(Usd(100), amt)
                /\ IsNum(wageValue) /\ 2 * amt.val <= wageValue.val
                /\ Len(NumberToString(amt)) <= 8 }
    IN  IF taxCandidates = {} THEN NaN ELSE Greatest(taxCandidates)

\* Strategy 4: the federal tax found, NaN when no pattern finds any
MineFederalTax(text, data) ==
    FirstFound(FederalTaxByContext(text),
               FirstFound(PositionalScan(text, FederalTaxLabel, Usd(0), Usd(100000)),
                          IF HasField(data, "wages")
                          THEN FederalTaxByWages(text, Field(data, "wages")) ELSE NaN))

\* extractedData[key] = amount.toString() when an amount was found
PutAmount(data, key, amount) ==
    IF IsNum(amount) THEN Put(data, key, NumberToString(amount)) ELSE data

PutFederalTax(text, data) ==
    PutAmount(data, "federalTaxWithheld", MineFederalTax(text, data))

\* the extraction from the OCR text (strategies 3 and 4: the amounts)
MineText(text) == PutFederalTax(text, PutAmount(<<>>, "wages", MineWages(text)))

\* docResult?.entities?.[0]?.confidence || 0.9, in hundredths
Confidence(entities) ==
    IF entities # <<>> /\ entities[1].confidence # 0 THEN entities[1].confidence ELSE 90

\* the fields of the entities, or of the text when the entities gave none
MapOrMine(ocrText, fromEntities) ==
    IF fromEntities = <<>> /\ ocrText # <<>> THEN MineText(ocrText) ELSE fromEntities

\* processWithGoogleDocumentAI from the end of the retry loop on
\*   docResult: [text, entities], what the vendor returned
ExtractedTaxData(doc, docResult) ==
    [ documentType |-> doc.documentType,
      ocrText |-> docResult.text,
      extractedData |-> MapOrMine(docResult.text, MapEntities(<<>>, docResult.entities)),
      confidence |-> Confidence(docResult.entities),
      processingMethod |-> "google_document_ai" ]

\* throw new Error(`Google Document AI processing failed: ${error.message}`)
ProcessingError(message) == "Google Document AI processing failed: " \o message

\* { error: "Google Document AI service not configured" }, status 500
ServiceNotConfigured ==
    [ route |-> "documents/process", status |-> 500,
      message |-> "Google Document AI service not configured", error |-> "" ]

\* { error: "Document processing failed", details: error.message }, status 500
DocumentProcessingFailed(details) ==
    [ route |-> "documents/process", status |-> 500,
      message |-> "Document processing failed", error |-> details ]

\* mutant: the catch of the route without its status update
CatchRouteErrorNoUpdate(doc, details, failed, rejected) ==
    [ document |-> doc, response |-> DocumentProcessingFailed(details), rejected |-> failed ]

\* the catch of the route: the update to FAILED in a try of its own, whose
\* failure is logged, then the answer.
\*   failed: the writes rejected before; rejected: those the database rejects
CatchRouteError(doc, details, failed, rejected) ==
    [ document |-> IF "FAILED" \in rejected THEN doc
                   ELSE [doc EXCEPT !.processingStatus = "FAILED"],
      response |-> DocumentProcessingFailed(details),
      rejected |-> failed \cup (rejected \cap {"FAILED"}) ]

\* Steps 8 and 9 of the route: the results saved and returned
SaveResults(doc, extractedTaxData, rejected) ==
    IF "COMPLETED" \in rejected
    THEN CatchRouteError(doc, DatabaseError, {"COMPLETED"}, rejected)
    ELSE [ document |-> [doc EXCEPT !.ocrText = OcrText(extractedTaxData.ocrText),
                                    !.extractedData = Some(extractedTaxData),
                                    !.processingStatus = "COMPLETED"],
           response |-> [ route |-> "documents/process", status |-> 200,
                          message |-> "Document processed successfully", error |-> "",
                          processingMethod |-> extractedTaxData.processingMethod,
                          documentType |-> extractedTaxData.documentType,
                          confidence |-> extractedTaxData.confidence,
                          extractedData |-> extractedTaxData.extractedData ],
           rejected |-> {} ]

---------------------------------------------------------------------------
(* Inputs *)

\* size of a batch: its forms plus their populated fields (amounts entries,
\* payer name, payer TIN, tax year)
MaxBatchSize == 4

Incomes ==
    { Usd(d) : d \in { -5000, 0, 10000, 14600, 14601, 21900, 26200, 26201, 29200,
                       60000, 61750, 61751, 100000, 115125, 115126, 206550, 206551,
                       258325, 258326, 623950, 623951, 700000 } }

WithheldTaxes == { Usd(0), UsdC(1200, 50), Usd(5216), Usd(6000), Usd(250000) }

FilingStatusArgs == FilingStatuses \cup {Omitted, "QUALIFYING_WIDOW"}

ItemizedDeductions == { Undefined, Usd(5000), Usd(20000) }

CalcInputs ==
    [ totalIncome : Incomes, totalWithheldTax : WithheldTaxes,
      filingStatus : FilingStatusArgs, itemizedDeduction : ItemizedDeductions ]

FormTypes ==
    { "FORM_1099_NEC", "FORM_1099_INT", "FORM_1099_DIV", "FORM_1099_MISC",
      "FORM_1099_R", "FORM_1099_G", "UNKNOWN" }

\* the amounts keys of a form type, in the order its parser assigns them
AmountKeys(formType) ==
    CASE formType = "FORM_1099_NEC" ->
            <<"nonemployeeCompensation", "federalIncomeTaxWithheld">>
      [] formType = "FORM_1099_INT" ->
            <<"interestIncome", "federalIncomeTaxWithheld">>
      [] formType = "FORM_1099_DIV" ->
            <<"ordinaryDividends", "qualifiedDividends", "federalIncomeTaxWithheld">>
      [] formType = "FORM_1099_MISC" ->
            <<"miscellaneousIncome", "rents", "federalIncomeTaxWithheld">>
      [] formType = "FORM_1099_R" ->
            <<"grossDistribution", "taxableAmount", "federalIncomeTaxWithheld">>
      [] formType = "FORM_1099_G" ->
            <<"unemploymentCompensation", "federalIncomeTaxWithheld">>
      [] OTHER -> <<"miscField", "federalIncomeTaxWithheld">>

\* a positive amount for each key, all different
TypicalAmount(key) ==
    CASE key = "nonemployeeCompensation" -> Usd(5000)
      [] key = "interestIncome" -> UsdC(120, 50)
      [] key = "ordinaryDividends" -> Usd(800)
      [] key = "qualifiedDividends" -> Usd(300)
      [] key = "miscellaneousIncome" -> Usd(1500)
      [] key = "rents" -> Usd(12000)
      [] key = "grossDistribution" -> Usd(10000)
      [] key = "taxableAmount" -> Usd(4000)
      [] key = "federalIncomeTaxWithheld" -> Usd(500)
      [] key = "unemploymentCompensation" -> Usd(3200)
      [] OTHER -> Usd(200)

\* what parseFloat of a captured digits-and-commas string can be: NaN, 0 or
\* a positive number; Undefined stands for "no entry under this key"
AmountChoices(key) == { Undefined, NaN, Num(0), TypicalAmount(key) }

RECURSIVE AmountsFrom(_, _)
AmountsFrom(keys, choice) ==
    IF keys = <<>> THEN <<>>
    ELSE LET rest == AmountsFrom(Tail(keys), [i \in 1..(Len(keys) - 1) |-> choice[i + 1]])
         IN  IF choice[1] = Undefined THEN rest
             ELSE <<[key |-> Head(keys), value |-> choice[1]]>> \o rest

AllAmountKeys ==
    UNION { { AmountKeys(t)[i] : i \in 1..Len(AmountKeys(t)) } : t \in FormTypes }

AmountsOfType(formType) ==
    LET keys == AmountKeys(formType)
        all == UNION { AmountChoices(k) : k \in AllAmountKeys }
    IN  { AmountsFrom(keys, choice) :
            choice \in { c \in [1..Len(keys) -> all] :
                            \A i \in 1..Len(keys) : c[i] \in AmountChoices(keys[i]) } }

TaxYears == { Absent, Some(2023), Some(2024) }
PayerNames == { Absent, Some("Acme Corp") }
PayerTINs == { Absent, Some("12-3456789") }

ExtractedForms ==
    UNION { [ formType : {t}, taxYear : TaxYears, payerName : PayerNames,
              payerTIN : PayerTINs, amounts : AmountsOfType(t) ] : t \in FormTypes }

Weight(form) ==
    1 + Len(form.amounts)
    + (IF form.payerName = Absent THEN 0 ELSE 1)
    + (IF form.payerTIN = Absent THEN 0 ELSE 1)
    + (IF form.taxYear = Absent THEN 0 ELSE 1)

\* turns of the year between two calls of the mapper
YearsBetweenCalls == {0, 1}

\* the forms of each size
FormsOfWeight == [w \in 1..MaxBatchSize |-> { f \in ExtractedForms : Weight(f) = w }]

RECURSIVE TotalWeight(_)
TotalWeight(forms) ==
    IF forms = <<>> THEN 0 ELSE Weight(Head(forms)) + TotalWeight(Tail(forms))

\* lines of text a document holds
MaxLines == 2

Chars2024 == <<"2", "0", "2", "4">>
CharsZero == <<"0">>
CharsComma == <<",">>
Chars200 == <<"2", "0", "0">>
Chars1250 == <<"1", ",", "2", "5", "0", ".", "5", "0">>

\* what can follow a form code, and what can follow a field label: nothing,
\* 0, a comma without digits, an amount, an amount with a thousands separator
AfterFormCode == { <<>>, Chars2024 }
AfterFieldLabel == { <<>>, CharsZero, CharsComma, Chars200, Chars1250 }

\* the labels of the 1099 forms in the order of their layout, each with the
\* values that can follow it; the last is a label of no known form
FormLayout ==
    << [label |-> <<"1099-NEC">>, values |-> AfterFormCode],
       [label |-> <<"1099-INT">>, values |-> AfterFormCode],
       [label |-> <<"1099-DIV">>, values |-> AfterFormCode],
       [label |-> <<"1099-MISC">>, values |-> AfterFormCode],
       [label |-> <<"1099-R">>, values |-> AfterFormCode],
       [label |-> <<"PAYER'S", "name">>, values |-> { <<"A", "c", "m", "e">> }],
       [label |-> <<"PAYER'S", "TIN">>,
        values |-> { <<"1", "2", "-", "3", "4", "5", "6", "7", "8", "9">> }],
       [label |-> <<"Nonemployee", "compensation">>, values |-> AfterFieldLabel],
       [label |-> <<"Interest", "income">>, values |-> AfterFieldLabel],
       [label |-> <<"Total", "ordinary", "dividends">>, values |-> AfterFieldLabel],
       [label |-> <<"Qualified", "dividends">>, values |-> AfterFieldLabel],
       [label |-> <<"Miscellaneous", "income">>, values |-> AfterFieldLabel],
       [label |-> <<"Rents">>, values |-> AfterFieldLabel],
       [label |-> <<"Gross", "distribution">>, values |-> AfterFieldLabel],
       [label |-> <<"Taxable", "amount">>, values |-> AfterFieldLabel],
       [label |-> <<"Federal", "income", "tax", "withheld">>, values |-> AfterFieldLabel],
       [label |-> <<"Gambling", "winnings">>, values |-> AfterFieldLabel] >>

\* the texts of up to MaxLines lines, labels in layout order
RECURSIVE TextsFrom(_, _)
TextsFrom(first, lines) ==
    IF lines = 0 \/ first > Len(FormLayout) THEN { <<>> }
    ELSE TextsFrom(first + 1, lines)
         \cup { <<[label |-> FormLayout[first].label, value |-> v]>> \o rest :
                    v \in FormLayout[first].values, rest \in TextsFrom(first + 1, lines - 1) }

FormTexts == TextsFrom(1, MaxLines)

\* what text extraction does: it throws, or it returns a text
Acquisitions ==
    { [threw |-> TRUE, text |-> <<>>] } \cup { [threw |-> FALSE, text |-> t] : t \in FormTexts }

\* the files uploaded
Files ==
    { [fileName |-> <<"1099-NEC", ".pdf">>, fileType |-> "application/pdf"],
      [fileName |-> <<"1099int", ".png">>, fileType |-> "image/png"],
      [fileName |-> <<"W2", ".pdf">>, fileType |-> "application/pdf"],
      [fileName |-> <<"scan", ".png">>, fileType |-> "image/png"] }

\* the writes the database rejects during a request
Rejections ==
    { {}, {"PROCESSING"}, {"COMPLETED"}, {"FAILED"}, {"ENTRY"}, {"WITHHOLDING"},
      {"COMPLETED", "FAILED"}, {"ENTRY", "FAILED"} }

Chars750000 == <<"7", "5", "0", "0", "0", "0", ".", "0", "0">>
Chars52000 == <<"5", "2", ",", "0", "0", "0", ".", "0", "0">>
Chars48500 == <<"4", "8", "5", "0", "0", ".", "5", "0">>
Chars4500 == <<"4", "5", "0", "0">>
Chars300000 == <<"3", "0", "0", "0", "0", "0">>
Chars1234567 == <<"1", "2", "3", "4", "5", "6", "7">>
Chars0012345 == <<"0", "0", "1", "2", "3", "4", "5">>

\* the lines of the OCR text of a W-2: the two labels with and without a
\* value after them, and lines that hold a value only
W2Lines ==
    { [label |-> WagesLabel, value |-> v] : v \in { <<>>, Chars750000, Chars52000 } }
    \cup { [label |-> FederalTaxLabel, value |-> v] : v \in { <<>>, Chars4500 } }
    \cup { [label |-> <<>>, value |-> v] :
                v \in { Chars48500, Chars4500, Chars300000, Chars1234567,
                        Chars0012345 } }

W2Texts == UNION { [1..n -> W2Lines] : n \in 0..MaxLines }

\* the entities of the vendor: none, the wages as printed, or the social
\* security wages followed by the wages, the second the more confident
Entities ==
    { <<>>,
      << [ type |-> "wages_tips_other_compensation",
           mentionText |-> <<"$">> \o Chars52000,
           normalizedText |-> <<>>,
           confidence |-> 95 ] >>,
      << [ type |-> "social_security_wages",
           mentionText |-> <<"$">> \o Chars52000,
           normalizedText |-> <<>>,
           confidence |-> 80 ],
         [ type |-> "wages_tips_other_compensation",
           mentionText |-> <<"$">> \o Chars52000,
           normalizedText |-> <<>>,
           confidence |-> 95 ] >> }

\* documents of a filing, and requests a filing receives
MaxDocuments == 2
MaxRequests == 3

\* the files of a filing: the 1099-NEC and the 1099-INT
FiledFiles ==
    { file \in Files :
        detectDocumentType(file.fileName) \in {"FORM_1099_NEC", "FORM_1099_INT"} }

\* what is printed on the file of a document of the filing
TextOnDisk(doc) ==
    IF doc.documentType = "FORM_1099_NEC"
    THEN << [label |-> <<"Nonemployee", "compensation">>, value |-> Chars1250],
            [label |-> <<"Federal", "income", "tax", "withheld">>, value |-> Chars200] >>
    ELSE << [label |-> <<"Interest", "income">>, value |-> Chars200] >>

\* text extraction on the file of a document of the filing: it throws, or
\* it returns what is printed on the file
FiledAcquisitions(documentId) ==
    { [threw |-> TRUE, text |-> <<>>],
      [threw |-> FALSE, text |-> TextOnDisk(document[documentId])] }

\* the writes the database rejects during a request of the filing: none,
\* or the creation of the row of the tax withheld
FiledRejections == { {}, {"WITHHOLDING"} }

\* the edits of a review: none, or a corrected amount for one of the entries
EditsOf(ids) == {NoEdits} \cup { [id |-> i, amount |-> Usd(60000)] : i \in ids }

\* what a call of processDocument does: it returns a document, it rejects,
\* or the timer of the race rejects first
AttemptOutcomes ==
    { [kind |-> "returned", message |-> "", docResult |-> [text |-> t, entities |-> e]] :
        t \in W2Texts, e \in Entities }
    \cup { [kind |-> "rejected", message |-> "14 UNAVAILABLE", docResult |-> <<>>],
           [kind |-> "timeout", message |-> "Google Document AI timeout after 60 seconds",
            docResult |-> <<>>] }

---------------------------------------------------------------------------
(* Behaviour: one use of the library or of a route per run *)

calcVars == <<calcArgs, calcResult>>
mapVars == <<extractedForms, mapping, now>>
docVars ==
    <<document, documentExtractedEntries, response, acquisition, rejectedWrites, result>>
retryVars == <<attempts, waits>>
filingVars == <<taxReturns, incomeEntryRows, requests>>

Init ==
    /\ pc = "idle"
    /\ calcArgs = <<>>
    /\ calcResult = <<>>
    /\ extractedForms = <<>>
    /\ mapping = <<>>
    /\ now = CurrentYear
    /\ document = <<>>
    /\ documentExtractedEntries = <<>>
    /\ response = <<>>
    /\ acquisition = "none"
    /\ rejectedWrites = {}
    /\ result = <<>>
    /\ attempts = 0
    /\ waits = 0
    /\ taxReturns = <<>>
    /\ incomeEntryRows = <<>>
    /\ requests = 0

\* A caller invokes calculateTaxReturn(totalIncome, totalWithheldTax,
\* filingStatus) -- in the spec's contract with an itemized deduction after it.
CalculateTaxReturn ==
    /\ pc = "idle"
    /\ \E args \in CalcInputs :
        /\ calcArgs' = <<args>>
        /\ calcResult' = <<calculateTaxReturn(args)>>
    /\ pc' = "done"
    /\ UNCHANGED <<mapVars, docVars, retryVars, filingVars>>

\* Extraction of one more document of the batch returns its form.
ExtractForm ==
    /\ pc \in {"idle", "collecting"}
    /\ \E w \in 1..(MaxBatchSize - TotalWeight(extractedForms)) :
        \E form \in FormsOfWeight[w] :
            extractedForms' = Append(extractedForms, form)
    /\ pc' = "collecting"
    /\ UNCHANGED <<calcVars, mapping, now, docVars, retryVars, filingVars>>

\* A caller invokes mapExtractedDataToIncomeEntries(extractedForms).
MapExtractedData ==
    /\ pc \in {"idle", "collecting"}
    /\ mapping' = <<mapExtractedDataToIncomeEntries(extractedForms, now)>>
    /\ pc' = "done"
    /\ UNCHANGED <<calcVars, extractedForms, now, docVars, retryVars, filingVars>>

\* The caller invokes mapExtractedDataToIncomeEntries on the same list
\* again, in the same calendar year or after the year has turned.
MapExtractedDataAgain ==
    /\ pc = "done"
    /\ Len(mapping) = 1
    /\ \E elapsed \in YearsBetweenCalls :
        /\ now' = now + elapsed
        /\ mapping' = Append(mapping,
                mapExtractedDataToIncomeEntries(extractedForms, now + elapsed))
    /\ UNCHANGED <<pc, calcVars, extractedForms, docVars, retryVars, filingVars>>

\* POST of the upload route: a valid file of the caller is stored and its
\* document created.
Upload ==
    /\ pc = "idle"
    /\ \E file \in Files : document' = <<NewDocument(file)>>
    /\ pc' = "uploaded"
    /\ UNCHANGED <<calcVars, mapVars, documentExtractedEntries, response,
                   acquisition, rejectedWrites, result, retryVars, filingVars>>

\* the end of a request of the process route for a document: what it wrote
\* and answered.  The rows it created join those the table holds.
EndProcessRoute(documentId, done) ==
    /\ document' = [document EXCEPT ![documentId] = done.document]
    /\ documentExtractedEntries' =
            documentExtractedEntries \o Stored(documentId, done.entries)
    /\ response' = <<done.response>>
    /\ rejectedWrites' = done.rejected

\* what became of the text acquisition of a request
Acquired(acquired, rejected) ==
    IF "PROCESSING" \in rejected THEN "none"
    ELSE IF acquired.threw THEN "failed"
    ELSE "returned"

\* POST of the process route for the document.
ProcessDocument ==
    /\ pc = "uploaded"
    /\ \E acquired \in Acquisitions, rejected \in Rejections :
        /\ EndProcessRoute(1, ProcessRoute(document[1], acquired, rejected, now))
        /\ acquisition' = Acquired(acquired, rejected)
    /\ pc' = "done"
    /\ UNCHANGED <<calcVars, mapVars, result, retryVars, filingVars>>

\* the end of a request of the Document AI route
EndDocumentAI(done) ==
    /\ document' = <<done.document>>
    /\ response' = <<done.response>>
    /\ rejectedWrites' = done.rejected

\* POST of the Document AI route for the document, up to the retry loop of
\* processWithGoogleDocumentAI.
StartDocumentAI ==
    /\ pc = "uploaded"
    /\ \E configured \in BOOLEAN, fileExists \in BOOLEAN, rejected \in SUBSET {"PROCESSING", "FAILED"} :
        IF ~configured
        THEN /\ response' = <<ServiceNotConfigured>>
             /\ pc' = "done"
             /\ UNCHANGED <<document, acquisition, rejectedWrites>>
        ELSE IF "PROCESSING" \in rejected
        THEN /\ EndDocumentAI(CatchRouteError(document[1], DatabaseError,
                                              {"PROCESSING"}, rejected))
             /\ pc' = "done"
             /\ UNCHANGED acquisition
        ELSE IF ~fileExists
        THEN /\ EndDocumentAI(CatchRouteError(Processing(document[1]),
                                              ProcessingError("File not found"), {}, rejected))
             /\ acquisition' = "failed"
             /\ pc' = "done"
        ELSE /\ document' = <<Processing(document[1])>>
             /\ pc' = "attempting"
             /\ UNCHANGED <<response, acquisition, rejectedWrites>>
    /\ UNCHANGED <<calcVars, mapVars, documentExtractedEntries, result, retryVars,
                   filingVars>>

\* One turn of the retry loop: the call of processDocument raced against
\* the timeout, and on its return the rest of the request.
AttemptProcessDocument ==
    /\ pc = "attempting"
    /\ IF attempts < maxAttempts
       THEN /\ attempts' = attempts + 1
            /\ \E outcome \in AttemptOutcomes :
                IF outcome.kind = "returned"
                THEN /\ acquisition' = "returned"
                     /\ result' = <<outcome.docResult>>
                     /\ pc' = "done"
                     /\ \E rejected \in SUBSET {"COMPLETED", "FAILED"} :
                          EndDocumentAI(SaveResults(document[1],
                                ExtractedTaxData(document[1], outcome.docResult), rejected))
                ELSE IF Rethrows(attempts + 1)
                THEN /\ acquisition' = "failed"
                     /\ pc' = "done"
                     /\ UNCHANGED result
                     /\ \E rejected \in SUBSET {"FAILED"} :
                          EndDocumentAI(CatchRouteError(document[1],
                                ProcessingError(outcome.message), {}, rejected))
                ELSE /\ pc' = "waiting"
                     /\ UNCHANGED <<document, response, acquisition, rejectedWrites,
                                    result>>
       ELSE \* the loop ends without a result: const { document } = result throws
            /\ \E rejected \in SUBSET {"FAILED"} :
                EndDocumentAI(CatchRouteError(document[1],
                      ProcessingError("Cannot destructure property 'document'"),
                      {}, rejected))
            /\ acquisition' = "failed"
            /\ pc' = "done"
            /\ UNCHANGED <<attempts, result>>
    /\ UNCHANGED <<calcVars, mapVars, documentExtractedEntries, waits, filingVars>>

\* await new Promise(resolve => setTimeout(resolve, 5000))
WaitBeforeRetry ==
    /\ pc = "waiting"
    /\ waits' = waits + 1
    /\ pc' = "attempting"
    /\ UNCHANGED <<calcVars, mapVars, docVars, attempts, filingVars>>

Next ==
    \/ CalculateTaxReturn
    \/ ExtractForm
    \/ MapExtractedData
    \/ MapExtractedDataAgain
    \/ Upload
    \/ ProcessDocument
    \/ StartDocumentAI
    \/ AttemptProcessDocument
    \/ WaitBeforeRetry

Spec == Init /\ [][Next]_vars

\* The Document AI route on its own.  Every call of processDocument
\* returns, fails or is cut off by the 60-second timer it is raced against,
\* and the 5-second timer of a wait fires.
NextDocumentAI ==
    \/ Upload
    \/ StartDocumentAI
    \/ AttemptProcessDocument
    \/ WaitBeforeRetry

DocumentAISpec ==
    /\ Init
    /\ [][NextDocumentAI]_vars
    /\ WF_vars(AttemptProcessDocument)
    /\ WF_vars(WaitBeforeRetry)

\* A filing is opened: its tax return exists, with a filing status and no
\* entries.
OpenFiling ==
    /\ pc = "idle"
    /\ \E filingStatus \in FilingStatuses : taxReturns' = <<NewTaxReturn(filingStatus)>>
    /\ pc' = "filing"
    /\ UNCHANGED <<calcVars, mapVars, docVars, retryVars, incomeEntryRows, requests>>

\* POST of the upload route: one more document of the filing.
UploadToFiling ==
    /\ pc = "filing"
    /\ Len(document) < MaxDocuments
    /\ \E file \in FiledFiles : document' = Append(document, NewDocument(file))
    /\ UNCHANGED <<pc, calcVars, mapVars, documentExtractedEntries, response,
                   acquisition, rejectedWrites, result, retryVars, filingVars>>

\* POST of the process route for a document of the filing, whatever its
\* processing status: the first request for it, a retry, or a request
\* that follows another.
ProcessFiledDocument ==
    /\ pc = "filing"
    /\ requests < MaxRequests
    /\ \E documentId \in 1..Len(document) :
        \E acquired \in FiledAcquisitions(documentId), rejected \in FiledRejections :
            /\ EndProcessRoute(documentId,
                               ProcessRoute(document[documentId], acquired, rejected, now))
            /\ acquisition' = Acquired(acquired, rejected)
    /\ requests' = requests + 1
    /\ UNCHANGED <<pc, calcVars, mapVars, result, retryVars, taxReturns, incomeEntryRows>>

\* the end of a request of the accept-entries route
EndAcceptEntries(done) ==
    /\ documentExtractedEntries' = done.rows
    /\ incomeEntryRows' = done.incomeEntries
    /\ taxReturns' = <<done.taxReturn>>
    /\ response' = <<done.response>>

\* POST of the accept-entries route: the reviewer submits extracted entries
\* of the filing, one of them edited or none.
AcceptEntries ==
    /\ pc = "filing"
    /\ requests < MaxRequests
    /\ documentExtractedEntries # <<>>
    /\ \E ids \in SUBSET (1..Len(documentExtractedEntries)) :
        \E edits \in EditsOf(ids) :
            EndAcceptEntries(AcceptEntriesRoute(documentExtractedEntries, incomeEntryRows,
                                                taxReturns[1], ids, edits))
    /\ requests' = requests + 1
    /\ UNCHANGED <<pc, calcVars, mapVars, document, acquisition, rejectedWrites, result,
                   retryVars>>

\* A filing: its documents uploaded and processed by independent requests,
\* its extracted entries reviewed and accepted.
NextFiling ==
    \/ OpenFiling
    \/ UploadToFiling
    \/ ProcessFiledDocument
    \/ AcceptEntries

FilingSpec == Init /\ [][NextFiling]_vars

---------------------------------------------------------------------------
(* Properties of calculateTaxReturn *)

CalcDone == calcResult # <<>>
TheArgs == calcArgs[1]
TheResult == calcResult[1]

\* non-negative totalIncome, non-negative withheld tax, one of the four statuses
ValidCalcInput ==
    /\ CalcDone
    /\ TheArgs.totalIncome.val >= 0
    /\ TheArgs.totalWithheldTax.val >= 0
    /\ TheArgs.filingStatus \in FilingStatuses

Max(a, b) == IF a >= b THEN a ELSE b

\* C1 as stated: for all valid inputs exactly one of refundAmount and
\* amountOwed is positive -- never both positive, never either negative,
\* never both zero.
C1_ExactlyOnePositive ==
    ValidCalcInput =>
        /\ IsNum(TheResult.refundAmount) /\ IsNum(TheResult.amountOwed)
        /\ TheResult.refundAmount.val >= 0
        /\ TheResult.amountOwed.val >= 0
        /\ (TheResult.refundAmount.val > 0) # (TheResult.amountOwed.val > 0)

\* C1 amended: for all valid inputs refundAmount and amountOwed are never
\* negative and never both positive, and both are zero exactly when the
\* withheld tax equals the liability.
C1_AtMostOnePositive ==
    ValidCalcInput =>
        /\ IsNum(TheResult.refundAmount) /\ IsNum(TheResult.amountOwed)
        /\ TheResult.refundAmount.val >= 0
        /\ TheResult.amountOwed.val >= 0
        /\ ~(TheResult.refundAmount.val > 0 /\ TheResult.amountOwed.val > 0)
        /\ (TheResult.refundAmount.val = 0 /\ TheResult.amountOwed.val = 0)
            <=> (TheArgs.totalWithheldTax = TheResult.taxLiability)

\* a positive liability met exactly by the withheld tax: nothing owed, nothing refunded
C1_Witness ==
    /\ ValidCalcInput
    /\ TheResult.taxLiability.val > 0
    /\ TheArgs.totalWithheldTax = TheResult.taxLiability
    /\ TheResult.refundAmount = Num(0)
    /\ TheResult.amountOwed = Num(0)

\* C2: for every non-negative totalIncome and every filing status,
\* taxableIncome = max(0, totalIncome - deduction), deduction being the
\* deduction returned for that status, and taxableIncome is never negative.
C2_TaxableIncome ==
    ValidCalcInput =>
        /\ IsNum(TheResult.standardDeduction)
        /\ TheResult.taxableIncome =
                Num(Max(0, TheArgs.totalIncome.val - TheResult.standardDeduction.val))
        /\ TheResult.taxableIncome.val >= 0

\* an income below the deduction: the difference is clamped to 0
C2_Witness ==
    /\ ValidCalcInput
    /\ TheArgs.totalIncome.val > 0
    /\ TheArgs.totalIncome.val < TheResult.standardDeduction.val
    /\ TheResult.taxableIncome = Num(0)

\* the published 2024 schedule for SINGLE, in dollars and cents: upper bound
\* of the bracket, marginal rate in percent, tax at the lower bound
SingleSchedule ==
    << [upper |-> 11600 * 100,  rate |-> 10, base |-> 0],
       [upper |-> 47150 * 100,  rate |-> 12, base |-> 1160 * 100],
       [upper |-> 100525 * 100, rate |-> 22, base |-> 5426 * 100],
       [upper |-> 191950 * 100, rate |-> 24, base |-> 17168 * 100 + 50],
       [upper |-> 243725 * 100, rate |-> 32, base |-> 39110 * 100 + 50],
       [upper |-> 609350 * 100, rate |-> 35, base |-> 55678 * 100 + 50],
       [upper |-> -1,           rate |-> 37, base |-> 183647 * 100 + 25] >>

LowerBound(i) == IF i = 1 THEN 0 ELSE SingleSchedule[i - 1].upper

\* bracket i contains x
InBracket(i, x) ==
    /\ (i = 1 \/ x > LowerBound(i))
    /\ (i = Len(SingleSchedule) \/ x <= SingleSchedule[i].upper)

\* C3: for a SINGLE filer taxLiability = baseAtLowerBound + (taxableIncome -
\* lowerBound) * marginalRate for the bracket of the published table that
\* contains taxableIncome; totalIncome 60000 gives taxableIncome 45400 and
\* liability 5216.00.
C3_SingleBracketFormula ==
    (ValidCalcInput /\ TheArgs.filingStatus = "SINGLE") =>
        /\ \A i \in 1..Len(SingleSchedule) :
            InBracket(i, TheResult.taxableIncome.val) =>
                /\ ((TheResult.taxableIncome.val - LowerBound(i)) * SingleSchedule[i].rate) % 100 = 0
                /\ TheResult.taxLiability =
                     Num(SingleSchedule[i].base
                         + ((TheResult.taxableIncome.val - LowerBound(i)) * SingleSchedule[i].rate) \div 100)
        /\ \E i \in 1..Len(SingleSchedule) : InBracket(i, TheResult.taxableIncome.val)
        /\ (TheArgs.totalIncome = Usd(60000)) =>
                /\ TheResult.taxableIncome = Usd(45400)
                /\ TheResult.taxLiability = Usd(5216)

C3_Witness ==
    /\ ValidCalcInput
    /\ TheArgs.filingStatus = "SINGLE"
    /\ TheArgs.totalIncome = Usd(60000)
    /\ TheResult.taxLiability = Usd(5216)

\* C4: totalPayments is the withheld tax; if it exceeds the liability,
\* refundAmount = totalPayments - liability and amountOwed = 0, otherwise
\* amountOwed = liability - totalPayments and refundAmount = 0 (payments 6000
\* against liability 5216: refund 784, owed 0).
C4_RefundOrOwed ==
    CalcDone =>
        LET payments == TheArgs.totalWithheldTax.val
            liability == TheResult.taxLiability.val
        IN  /\ IsNum(TheResult.taxLiability)
            /\ IF payments > liability
               THEN /\ TheResult.refundAmount = Num(payments - liability)
                    /\ TheResult.amountOwed = Num(0)
               ELSE /\ TheResult.amountOwed = Num(liability - payments)
                    /\ TheResult.refundAmount = Num(0)
            /\ (payments = 6000 * 100 /\ liability = 5216 * 100) =>
                    /\ TheResult.refundAmount = Usd(784)
                    /\ TheResult.amountOwed = Num(0)

C4_Witness ==
    /\ CalcDone
    /\ TheArgs.totalWithheldTax = Usd(6000)
    /\ TheResult.taxLiability = Usd(5216)
    /\ TheResult.refundAmount = Usd(784)
    /\ TheResult.amountOwed = Num(0)

\* C5 as stated: the deduction applied is max(standardDeduction,
\* itemizedDeduction or 0), so taxableIncome = max(0, adjustedGrossIncome -
\* max(standardDeduction, itemizedDeduction)).
C5_ItemizedDeductionApplied ==
    ValidCalcInput =>
        LET itemized ==
                IF IsNum(TheArgs.itemizedDeduction) THEN TheArgs.itemizedDeduction.val ELSE 0
            deduction == Max(TheResult.standardDeduction.val, itemized)
        IN  TheResult.taxableIncome =
                Num(Max(0, TheResult.adjustedGrossIncome.val - deduction))

\* C6 as stated: a negative totalIncome or a filing status outside the four
\* known values makes calculateTaxReturn raise an error instead of returning a
\* result.
C6_FailsFastOnInvalidInput ==
    (/\ CalcDone
     /\ \/ TheArgs.totalIncome.val < 0
        \/ TheArgs.filingStatus \notin (FilingStatuses \cup {Omitted}))
    => TheResult.threw

\* C7: the standard deduction returned is a fixed lookup by filing status --
\* 14600 for SINGLE and MARRIED_FILING_SEPARATELY, 29200 for
\* MARRIED_FILING_JOINTLY, 21900 for HEAD_OF_HOUSEHOLD -- whatever the income
\* and the withheld tax.
C7_StandardDeductionLookup ==
    (CalcDone /\ TheArgs.filingStatus \in FilingStatuses) =>
        TheResult.standardDeduction.tag = "number"
        /\ TheResult.standardDeduction.val =
            ( CASE TheArgs.filingStatus \in {"SINGLE", "MARRIED_FILING_SEPARATELY"} -> 1460000
                [] TheArgs.filingStatus = "MARRIED_FILING_JOINTLY" -> 2920000
                [] TheArgs.filingStatus = "HEAD_OF_HOUSEHOLD" -> 2190000 )

\* a head of household with a high income and a withheld tax gets 21900
C7_Witness ==
    /\ CalcDone
    /\ TheArgs.filingStatus = "HEAD_OF_HOUSEHOLD"
    /\ TheArgs.totalIncome = Usd(700000)
    /\ TheArgs.totalWithheldTax = Usd(6000)
    /\ TheResult.standardDeduction = Usd(21900)

---------------------------------------------------------------------------
(* Properties of mapExtractedDataToIncomeEntries *)

MapDone == mapping # <<>>
TheMapping == mapping[1]

HasKey(amounts, key) == \E i \in 1..Len(amounts) : amounts[i].key = key

\* the amount a form holds under a key: its number of cents; an entry that is
\* not a number (a failed parse) is no amount
HasAmount(form, key) == HasKey(form.amounts, key) /\ IsNum(Get(form.amounts, key))
AmountOf(form, key) == Get(form.amounts, key).val

RECURSIVE SumOfWithheld(_)
SumOfWithheld(forms) ==
    IF forms = <<>> THEN 0
    ELSE (IF HasAmount(Head(forms), "federalIncomeTaxWithheld")
          THEN AmountOf(Head(forms), "federalIncomeTaxWithheld") ELSE 0)
         + SumOfWithheld(Tail(forms))

\* C8: the withheldTax returned equals the sum of the
\* federalIncomeTaxWithheld amounts of all forms that have one, whatever the
\* form type and whether or not the form produced a line item, and is never
\* negative.
C8_WithheldTaxIsSum ==
    MapDone =>
        /\ TheMapping.withheldTax = Num(SumOfWithheld(extractedForms))
        /\ TheMapping.withheldTax.val >= 0

\* two forms with withheld tax, of a type with a rule and of a type without,
\* neither producing a line item
C8_Witness ==
    /\ MapDone
    /\ Len(extractedForms) = 2
    /\ extractedForms[1].formType = "FORM_1099_R"
    /\ extractedForms[2].formType = "UNKNOWN"
    /\ \A i \in 1..2 : AmountOf(extractedForms[i], "federalIncomeTaxWithheld") = 500 * 100
    /\ TheMapping.incomeEntries = <<>>
    /\ TheMapping.withheldTax = Usd(1000)

\* the rule table: source field and income type of each line item of a form type
RuleTable(formType) ==
    CASE formType = "FORM_1099_NEC" ->
            << <<"nonemployeeCompensation", "BUSINESS_INCOME">> >>
      [] formType = "FORM_1099_INT" ->
            << <<"interestIncome", "INTEREST">> >>
      [] formType = "FORM_1099_DIV" ->
            << <<"ordinaryDividends", "DIVIDENDS">>, <<"qualifiedDividends", "DIVIDENDS">> >>
      [] formType = "FORM_1099_MISC" ->
            << <<"rents", "OTHER_INCOME">>, <<"miscellaneousIncome", "OTHER_INCOME">> >>

RuleTableTypes ==
    {"FORM_1099_NEC", "FORM_1099_INT", "FORM_1099_DIV", "FORM_1099_MISC"}

\* one <<income type, cents>> per rule whose source field is present and > 0
RECURSIVE ItemsOfRules(_, _)
ItemsOfRules(rules, form) ==
    IF rules = <<>> THEN <<>>
    ELSE (IF HasAmount(form, Head(rules)[1]) /\ AmountOf(form, Head(rules)[1]) > 0
          THEN << <<Head(rules)[2], AmountOf(form, Head(rules)[1])>> >>
          ELSE <<>>)
         \o ItemsOfRules(Tail(rules), form)

RECURSIVE ItemsOfTable(_)
ItemsOfTable(forms) ==
    IF forms = <<>> THEN <<>>
    ELSE ItemsOfRules(RuleTable(Head(forms).formType), Head(forms))
         \o ItemsOfTable(Tail(forms))

\* the line items returned, as <<income type, cents>>
ItemsReturned ==
    [i \in 1..Len(TheMapping.incomeEntries) |->
        <<TheMapping.incomeEntries[i].incomeType, TheMapping.incomeEntries[i].amount.val>>]

OnlyTypes(types) ==
    \A i \in 1..Len(extractedForms) : extractedForms[i].formType \in types

\* C9: for forms of type 1099-NEC, 1099-INT, 1099-DIV and 1099-MISC the
\* mapper produces exactly the line items of the rule table and no others:
\* one item of the listed income type and the source amount for each listed
\* source field if and only if that field is present and strictly positive.
C9_RuleTableItems ==
    MapDone =>
        /\ \A i \in 1..Len(TheMapping.incomeEntries) : IsNum(TheMapping.incomeEntries[i].amount)
        /\ OnlyTypes(RuleTableTypes) => ItemsReturned = ItemsOfTable(extractedForms)
        \* in a batch that holds other forms too: the items of the income types
        \* only these rules produce are those of its NEC, INT and DIV forms
        /\ LET OfRule(item) == item[1] \in {"BUSINESS_INCOME", "INTEREST", "DIVIDENDS"}
               HasRule(form) ==
                    form.formType \in {"FORM_1099_NEC", "FORM_1099_INT", "FORM_1099_DIV"}
           IN  SelectSeq(ItemsReturned, OfRule) = ItemsOfTable(SelectSeq(extractedForms, HasRule))

\* a 1099-NEC with nonemployeeCompensation 5000 and federalIncomeTaxWithheld
\* 500: one BUSINESS_INCOME item of 5000, withheldTax 500
C9_Witness ==
    /\ MapDone
    /\ Len(extractedForms) = 1
    /\ extractedForms[1].formType = "FORM_1099_NEC"
    /\ extractedForms[1].amounts =
            << [key |-> "nonemployeeCompensation", value |-> Usd(5000)],
               [key |-> "federalIncomeTaxWithheld", value |-> Usd(500)] >>
    /\ ItemsReturned = << <<"BUSINESS_INCOME", 5000 * 100>> >>
    /\ TheMapping.withheldTax = Usd(500)

\* the 1099-R rule as stated: the amount is taxableAmount whenever that entry
\* is present, grossDistribution only when it is absent
RetirementItems(form) ==
    LET source ==
            IF HasKey(form.amounts, "taxableAmount") THEN "taxableAmount"
            ELSE "grossDistribution"
    IN  IF HasAmount(form, source) /\ AmountOf(form, source) > 0
        THEN << <<"RETIREMENT_DISTRIBUTIONS", AmountOf(form, source)>> >>
        ELSE <<>>

\* every amounts entry of the batch is a number
AllParsed ==
    \A i \in 1..Len(extractedForms) :
        \A j \in 1..Len(extractedForms[i].amounts) : IsNum(extractedForms[i].amounts[j].value)

RECURSIVE ItemsOfRetirement(_)
ItemsOfRetirement(forms) ==
    IF forms = <<>> THEN <<>>
    ELSE RetirementItems(Head(forms)) \o ItemsOfRetirement(Tail(forms))

\* C10 as stated: for a 1099-R form the RETIREMENT_DISTRIBUTIONS item takes
\* its amount from taxableAmount whenever taxableAmount is present and from
\* grossDistribution only when it is absent; a taxableAmount present and
\* equal to 0 yields no line item even if grossDistribution is positive.
C10_TaxableAmountWhenPresent ==
    (MapDone /\ OnlyTypes({"FORM_1099_R"}) /\ AllParsed) =>
        ItemsReturned = ItemsOfRetirement(extractedForms)


---------------------------------------------------------------------------
(* The default branch of the mapper *)

\* the form types the switch has no case for
NoRuleTypes == FormTypes \ (RuleTableTypes \cup {"FORM_1099_R"})

\* one <<"OTHER_INCOME", cents>> per amounts entry, in entry order, that is a
\* number, strictly positive and not under federalIncomeTaxWithheld
RECURSIVE ItemsOfAmounts(_)
ItemsOfAmounts(amounts) ==
    IF amounts = <<>> THEN <<>>
    ELSE (IF IsNum(Head(amounts).value) /\ Head(amounts).value.val > 0
             /\ Head(amounts).key # "federalIncomeTaxWithheld"
          THEN << <<"OTHER_INCOME", Head(amounts).value.val>> >>
          ELSE <<>>)
         \o ItemsOfAmounts(Tail(amounts))

RECURSIVE ItemsOfNoRule(_)
ItemsOfNoRule(forms) ==
    IF forms = <<>> THEN <<>>
    ELSE ItemsOfAmounts(Head(forms).amounts) \o ItemsOfNoRule(Tail(forms))

\* the line items the default branch labels, as <<income type, cents>>
UnknownFormItems ==
    LET Labelled(e) ==
            \E k \in AllAmountKeys : e.description.text = "Unknown Form: " \o k
        labelled == SelectSeq(TheMapping.incomeEntries, Labelled)
    IN  [i \in 1..Len(labelled) |-> <<labelled[i].incomeType, labelled[i].amount.val>>]

\* C11: for a form whose type is UNKNOWN or has no dedicated rule the mapper
\* produces exactly one OTHER_INCOME item per amounts entry that is numeric,
\* strictly positive and not federalIncomeTaxWithheld, with that amount; the
\* withheld tax of such a form still counts.
C11_OtherIncomePerEntry ==
    MapDone =>
        /\ OnlyTypes(NoRuleTypes) =>
                /\ ItemsReturned = ItemsOfNoRule(extractedForms)
                /\ TheMapping.withheldTax = Num(SumOfWithheld(extractedForms))
        \* in a batch that holds other forms too: the items labelled
        \* "Unknown Form" are those of its forms without a rule
        /\ LET NoRule(form) == form.formType \in NoRuleTypes
           IN  UnknownFormItems = ItemsOfNoRule(SelectSeq(extractedForms, NoRule))

\* an UNKNOWN form {miscField: 200, federalIncomeTaxWithheld: 500}: one
\* OTHER_INCOME item of 200, withheldTax 500
C11_Witness ==
    /\ MapDone
    /\ Len(extractedForms) = 1
    /\ extractedForms[1].formType = "UNKNOWN"
    /\ extractedForms[1].amounts =
            << [key |-> "miscField", value |-> Usd(200)],
               [key |-> "federalIncomeTaxWithheld", value |-> Usd(500)] >>
    /\ ItemsReturned = << <<"OTHER_INCOME", 200 * 100>> >>
    /\ TheMapping.withheldTax = Usd(500)


---------------------------------------------------------------------------
(* Two calls of the mapper; the tax year *)

MappedTwice == Len(mapping) = 2

\* some form of the batch supplies a tax year
SuppliesYear(forms) == \E i \in 1..Len(forms) : forms[i].taxYear # Absent

\* C12 as stated: mapping the same list of extracted forms twice yields
\* identical line items, identical withheldTax and identical taxYear.
C12_SameResultTwice ==
    MappedTwice => mapping[1] = mapping[2]

\* C12 amended: mapping the same list twice yields identical line items and
\* identical withheldTax; the taxYear is identical too when a form supplies
\* a year or both calls fall in the same calendar year, and otherwise is the
\* year before each call's own calendar year.  No state carries over.
C12_SameResultButClock ==
    MappedTwice =>
        /\ mapping[1].incomeEntries = mapping[2].incomeEntries
        /\ mapping[1].withheldTax = mapping[2].withheldTax
        /\ (SuppliesYear(extractedForms) \/ now = CurrentYear)
                => mapping[1].taxYear = mapping[2].taxYear
        /\ ~SuppliesYear(extractedForms)
                => mapping[1].taxYear = CurrentYear - 1 /\ mapping[2].taxYear = now - 1

\* a batch with a line item, a withheld tax and a tax year, mapped before and
\* after the turn of the year, with the same result
C12_Witness ==
    /\ MappedTwice
    /\ now = CurrentYear + 1
    /\ Len(extractedForms) = 1
    /\ extractedForms[1].taxYear = Some(2024)
    /\ mapping[1].incomeEntries # <<>>
    /\ mapping[1].withheldTax = Usd(500)
    /\ mapping[2] = mapping[1]

\* the tax year a list of forms gives: that of its last form with a year
RECURSIVE YearOfLast(_, _)
YearOfLast(forms, default) ==
    IF forms = <<>> THEN default
    ELSE IF forms[Len(forms)].taxYear # Absent THEN forms[Len(forms)].taxYear[1]
    ELSE YearOfLast(SubSeq(forms, 1, Len(forms) - 1), default)

\* C13: the taxYear returned is the taxYear of the last form in list order
\* that supplies a year, and the previous calendar year when no form does;
\* forms without a year never reset a year set by an earlier form.
C13_TaxYearOfLastForm ==
    /\ MapDone => TheMapping.taxYear = YearOfLast(extractedForms, CurrentYear - 1)
    /\ MappedTwice => mapping[2].taxYear = YearOfLast(extractedForms, now - 1)

\* a form of 2023 followed by a form without a year: 2023, not the default
C13_Witness ==
    /\ MapDone
    /\ Len(extractedForms) = 2
    /\ extractedForms[1].taxYear = Some(2023)
    /\ extractedForms[2].taxYear = Absent
    /\ TheMapping.taxYear = 2023


---------------------------------------------------------------------------
(* Properties of the routes *)

Answered == pc = "done" /\ response # <<>>
TheDocument == document[1]
TheResponse == response[1]

\* the process route has answered; it has answered with success
Processed == Answered /\ TheResponse.route = "tax-forms/process"
ProcessedSuccessfully200 == Processed /\ TheResponse.status = 200

\* the Document AI route has answered
AnsweredByDocumentAI == Answered /\ TheResponse.route = "documents/process"

\* the text that was acquired and stored
StoredText == TheDocument.ocrText.text

\* the income types the mapper gives to the line items of a form type
IncomeTypesOf(formType) ==
    CASE formType = "FORM_1099_NEC" -> {"BUSINESS_INCOME"}
      [] formType = "FORM_1099_INT" -> {"INTEREST"}
      [] formType = "FORM_1099_DIV" -> {"DIVIDENDS"}
      [] formType = "FORM_1099_R" -> {"RETIREMENT_DISTRIBUTIONS"}
      [] OTHER -> {"OTHER_INCOME"}

ParsedTypes ==
    {"FORM_1099_NEC", "FORM_1099_INT", "FORM_1099_DIV", "FORM_1099_MISC", "FORM_1099_R"}

\* C14 as stated: when the file name holds a recognised form hint, the form
\* type used to parse and map the document is the one the file name gives,
\* whatever the body text says.
C14_FileNameDecidesFormType ==
    (ProcessedSuccessfully200 /\ TheDocument.documentType \in ParsedTypes) =>
        /\ TheResponse.extractedData[1].formType = TheDocument.documentType
        /\ \A i \in 1..Len(TheResponse.extractedEntries) :
                TheResponse.extractedEntries[i].extractedData.incomeType
                    \in IncomeTypesOf(TheDocument.documentType)

\* the content tests in their order: the form code or a field label
ContentTests ==
    << [formType |-> "FORM_1099_NEC",
        keywords |-> { <<"1099-NEC">>, <<"Nonemployee", "compensation">> }],
       [formType |-> "FORM_1099_INT",
        keywords |-> { <<"1099-INT">>, <<"Interest", "income">> }],
       [formType |-> "FORM_1099_DIV",
        keywords |-> { <<"1099-DIV">>, <<"dividends">> }],
       [formType |-> "FORM_1099_MISC",
        keywords |-> { <<"1099-MISC">>, <<"Miscellaneous", "income">> }],
       [formType |-> "FORM_1099_R",
        keywords |-> { <<"1099-R">>, <<"distribution">> }] >>

TestMatches(text, i) == \E phrase \in ContentTests[i].keywords : Includes(text, phrase)

\* the form type of the first test the text matches, UNKNOWN when it matches none
FirstMatch(text) ==
    LET matching == { i \in 1..Len(ContentTests) : TestMatches(text, i) }
    IN  IF matching = {} THEN "UNKNOWN"
        ELSE ContentTests[CHOOSE i \in matching : \A j \in matching : i <= j].formType

\* the keys of the amounts a form holds
KeysOf(form) == { form.amounts[i].key : i \in 1..Len(form.amounts) }

\* C15: the content classification tests the body text in the fixed order
\* NEC, INT, DIV, MISC, R, each by its form code or a distinctive field
\* label, and the first match decides the parser; a text that matches none
\* yields UNKNOWN without an error.
C15_ContentPriorityOrder ==
    (Processed /\ acquisition = "returned" /\ rejectedWrites = {}) =>
        /\ TheResponse.status = 200
        /\ TheResponse.extractedData[1].formType = FirstMatch(StoredText)
        /\ KeysOf(TheResponse.extractedData[1])
                \subseteq { AmountKeys(FirstMatch(StoredText))[k] :
                               k \in 1..Len(AmountKeys(FirstMatch(StoredText))) }
        /\ FirstMatch(StoredText) = "UNKNOWN" => TheResponse.extractedData[1].amounts = <<>>

\* a text with the code 1099-NEC and the label "Interest income" followed by
\* an amount: parsed as a 1099-NEC
C15_Witness ==
    /\ ProcessedSuccessfully200
    /\ Includes(StoredText, <<"1099-NEC">>)
    /\ Includes(StoredText, <<"Interest", "income">>)
    /\ MatchAmount(StoredText, <<"Interest", "income">>) = Chars1250
    /\ TheResponse.extractedData[1].formType = "FORM_1099_NEC"

\* the positive amounts of a text, in cents
PositiveAmountsIn(text) ==
    { parseFloat(RemoveCommas(text[i].value)).val :
        i \in { j \in 1..Len(text) : Gt(parseFloat(RemoveCommas(text[j].value)), Num(0)) } }

\* C16 as stated: when the text of a document matches no known form type,
\* the amounts found in it are not discarded: after extraction and mapping
\* every positive amount of the text appears as an OTHER_INCOME line item.
C16_UnmatchedAmountsKept ==
    (ProcessedSuccessfully200 /\ FirstMatch(StoredText) = "UNKNOWN") =>
        \A cents \in PositiveAmountsIn(StoredText) :
            \E i \in 1..Len(TheResponse.extractedEntries) :
                /\ TheResponse.extractedEntries[i].extractedData.incomeType = "OTHER_INCOME"
                /\ TheResponse.extractedEntries[i].extractedData.amount = Num(cents)

\* C17: in one invocation of processWithGoogleDocumentAI the call of
\* processDocument is attempted at most 3 times; no attempt follows a
\* success; a 5-second wait follows each failed attempt except the last;
\* and the invocation always ends, with a result or an error.
C17_RetryLoop ==
    /\ [](/\ attempts <= 3
          /\ pc = "attempting" => waits = attempts
          /\ pc = "waiting" => (waits = attempts - 1 /\ attempts < 3)
          /\ (pc = "done" /\ acquisition = "returned") => waits = attempts - 1
          /\ (pc = "done" /\ acquisition = "failed" /\ attempts > 0)
                => (attempts = 3 /\ waits = 2))
    /\ [][acquisition = "returned" => attempts' = attempts]_vars
    /\ (pc = "attempting") ~> (pc = "done" /\ response # <<>>)

\* two attempts fail, each followed by a wait, and the third returns
C17_Witness ==
    /\ AnsweredByDocumentAI
    /\ acquisition = "returned"
    /\ attempts = 3
    /\ waits = 2
    /\ TheResponse.status = 200

C19_AbsentFieldsAndEmptyText ==
    /\ (Answered /\ acquisition = "returned" /\ rejectedWrites = {})
            => (StoredText # <<>> => TheResponse.status = 200)
    /\ (Answered /\ acquisition = "returned" /\ TheResponse.status = 200)
            => (StoredText # <<>> /\ TheDocument.processingStatus = "COMPLETED")

\* the text-mining regime: the entities gave no field and there is a text
TextMined ==
    /\ AnsweredByDocumentAI
    /\ TheResponse.status = 200
    /\ MapEntities(<<>>, result[1].entities) = <<>>
    /\ result[1].text # <<>>

\* C20 as stated: in the text-mining regime every value stored as wages lies
\* in [1000, 500000] and every value stored as federalTaxWithheld lies in
\* [0, 100000], whichever strategy produced it.
C20_StoredAmountsInRange ==
    TextMined =>
        LET data == TheResponse.extractedData
        IN  /\ HasField(data, "wages") =>
                    /\ Le(Usd(1000), parseFloat(Field(data, "wages")))
                    /\ Le(parseFloat(Field(data, "wages")), Usd(500000))
            /\ HasField(data, "federalTaxWithheld") =>
                    /\ Le(Usd(0), parseFloat(Field(data, "federalTaxWithheld")))
                    /\ Le(parseFloat(Field(data, "federalTaxWithheld")), Usd(100000))

---------------------------------------------------------------------------
(* Properties of the bracket schedule and of the other filing statuses *)

\* the taxable income of a SINGLE filer with this total income
SingleTaxableIncome(totalIncome) ==
    TaxableIncome(totalIncome, standardDeductions("SINGLE"))

\* C27: for SINGLE the liability is continuous and non-decreasing in taxable
\* income: at each boundary (11600, 47150, 100525, 191950, 243725, 609350)
\* the lower bracket's formula gives the base of the next bracket, one dollar
\* above the boundary the liability has grown by the next marginal rate on
\* that dollar only, and a smaller taxable income never owes more.
C27_ContinuousNonDecreasing ==
    (ValidCalcInput /\ TheArgs.filingStatus = "SINGLE") =>
        /\ \A i \in 1..(Len(SingleSchedule) - 1) :
            /\ (TheResult.taxableIncome = Num(SingleSchedule[i].upper)) =>
                    TheResult.taxLiability = Num(SingleSchedule[i + 1].base)
            /\ (TheResult.taxableIncome = Num(SingleSchedule[i].upper + 100)) =>
                    TheResult.taxLiability =
                        Num(SingleSchedule[i + 1].base + SingleSchedule[i + 1].rate)
        /\ \A other \in Incomes :
            Le(SingleTaxableIncome(other), TheResult.taxableIncome) =>
                Le(SingleBracketTax(SingleTaxableIncome(other)), TheResult.taxLiability)

C27_Witness ==
    /\ ValidCalcInput
    /\ TheArgs.filingStatus = "SINGLE"
    /\ TheResult.taxableIncome = Usd(47150)
    /\ TheResult.taxLiability = Usd(5426)

\* C28: for MARRIED_FILING_JOINTLY, MARRIED_FILING_SEPARATELY and
\* HEAD_OF_HOUSEHOLD calculateTaxReturn returns taxLiability 0 whatever the
\* income, hence amountOwed 0 and refundAmount equal to the whole withheld
\* tax.
C28_OtherStatusesOweNothing ==
    (ValidCalcInput /\ TheArgs.filingStatus \in FilingStatuses \ {"SINGLE"}) =>
        /\ TheResult.taxLiability = Num(0)
        /\ TheResult.amountOwed = Num(0)
        /\ TheResult.refundAmount = TheArgs.totalWithheldTax

C28_Witness ==
    /\ ValidCalcInput
    /\ TheArgs.filingStatus = "MARRIED_FILING_JOINTLY"
    /\ TheArgs.totalIncome = Usd(100000)
    /\ TheArgs.totalWithheldTax = Usd(5216)
    /\ TheResult.taxableIncome = Usd(70800)
    /\ TheResult.refundAmount = Usd(5216)

---------------------------------------------------------------------------
(* Properties of the parsed amounts and of the Document AI regimes *)

\* the 1099 form types, each with its own parser
Forms1099 ==
    { "FORM_1099_NEC", "FORM_1099_INT", "FORM_1099_DIV", "FORM_1099_MISC",
      "FORM_1099_R" }

\* C24 as stated: in the 1099 parsers a captured amount string that does not
\* parse to a number is treated as field not found, so every value present
\* in amounts is a finite non-negative number.
C24_AmountsFiniteNonNegative ==
    (ProcessedSuccessfully200 /\ TheResponse.extractedData[1].formType \in Forms1099) =>
        \A i \in 1..Len(TheResponse.extractedData[1].amounts) :
            /\ IsNum(TheResponse.extractedData[1].amounts[i].value)
            /\ TheResponse.extractedData[1].amounts[i].value.val >= 0

\* the tokens of a text that consist of seven or more digits and nothing else
LongDigitTokens(text) ==
    { text[i].value :
        i \in { j \in 1..Len(text) :
                    /\ Len(text[j].value) >= 7
                    /\ \A k \in 1..Len(text[j].value) : IsDigit(text[j].value[k]) } }

\* the wages of the response were chosen by the statistical fallback
WagesFromFallback ==
    /\ TextMined
    /\ ~IsNum(WagesByContext(result[1].text))
    /\ ~IsNum(PositionalScan(result[1].text, WagesLabel, Usd(1000), Usd(1000000)))
    /\ HasField(TheResponse.extractedData, "wages")

\* C21 as stated: the statistical fallback for wages never selects a token
\* of seven or more digits without a decimal point, leading zeros included:
\* the wages it stores are the value of no such token.
C21_FallbackSkipsLongIntegers ==
    WagesFromFallback =>
        \A token \in LongDigitTokens(result[1].text) :
            Field(TheResponse.extractedData, "wages") # NumberToString(parseFloat(token))

\* the entity-driven regime: the entities gave the fields of the response
EntityDriven ==
    /\ AnsweredByDocumentAI
    /\ TheResponse.status = 200
    /\ MapEntities(<<>>, result[1].entities) # <<>>

\* the field names that imply a monetary amount
MonetaryFields ==
    { "wages", "socialSecurityWages", "medicareWages", "stateWages",
      "federalTaxWithheld", "socialSecurityTaxWithheld", "medicareTaxWithheld",
      "stateTaxWithheld", "amount" }

\* C22 as stated: in the entity-driven regime every value stored under a
\* field whose name implies a monetary amount has its thousands separators
\* and currency symbols removed before it is stored.
C22_MonetaryValuesCleaned ==
    EntityDriven =>
        \A i \in 1..Len(TheResponse.extractedData) :
            TheResponse.extractedData[i].key \in MonetaryFields =>
                \A k \in 1..Len(TheResponse.extractedData[i].value) :
                    TheResponse.extractedData[i].value[k] \notin {",", "$"}

\* the greatest confidence among the entities, in hundredths
HighestConfidence(entities) ==
    CHOOSE c \in { entities[i].confidence : i \in 1..Len(entities) } :
        \A i \in 1..Len(entities) : entities[i].confidence <= c

\* C23 as stated: the confidence of an extraction result is the highest
\* confidence among the vendor entities in the entity-driven regime, one
\* fixed constant when the text-mining regime produced the fields, 0 when no
\* field at all could be extracted, and always within [0, 1].
C23_ConfidenceByRegime ==
    (AnsweredByDocumentAI /\ TheResponse.status = 200) =>
        /\ TheDocument.extractedData[1].confidence \in 0..100
        /\ EntityDriven =>
                TheDocument.extractedData[1].confidence = HighestConfidence(result[1].entities)
        /\ (~EntityDriven /\ TheResponse.extractedData # <<>>) =>
                TheDocument.extractedData[1].confidence = 90
        /\ (TheResponse.extractedData = <<>>) =>
                TheDocument.extractedData[1].confidence = 0

---------------------------------------------------------------------------
(* Properties of a filing: its requests, its entries and its totals *)

\* a step in which the process route answers a request with success, and
\* one in which the accept-entries route does
ProcessedStep ==
    /\ requests' = requests + 1
    /\ response'[1].route = "tax-forms/process"
    /\ response'[1].status = 200

AcceptedStep ==
    /\ requests' = requests + 1
    /\ response'[1].route = "accept-entries"
    /\ response'[1].status = 200

\* C25 as stated: when the documents of one filing are processed by
\* independent requests, the mapper runs only after the extraction of all
\* forms of the batch has completed, and over all of them together: no
\* request maps a form while another document of the filing is unextracted.
C25_MapperAfterAllExtracted ==
    [][ProcessedStep =>
            \A d \in 1..Len(document') : document'[d].processingStatus = "COMPLETED"]_vars

\* the rows of an entry type among the extracted entries, in id order
RowsOfType(entryType) ==
    LET OfType(row) == row.entryType = entryType
    IN  SelectSeq(documentExtractedEntries, OfType)

\* the tax withheld that the extracted entries of the filing report
WithheldInFiling ==
    TotalAmount([i \in 1..Len(RowsOfType("WITHHOLDING")) |->
                    RowsOfType("WITHHOLDING")[i].extractedData])

\* what calculateTaxReturn computes for the income of the tax return, its
\* filing status and the tax withheld in the filing
CalculatedForFiling ==
    calculateTaxReturn([ totalIncome |-> taxReturns[1].totalIncome,
                         totalWithheldTax |-> WithheldInFiling,
                         filingStatus |-> taxReturns[1].filingStatus,
                         itemizedDeduction |-> Undefined ])

\* the accept-entries route has answered with success: the totals of the
\* tax return are those recalculateTaxReturn persisted
Recalculated ==
    /\ pc = "filing"
    /\ response # <<>>
    /\ response[1].route = "accept-entries"
    /\ response[1].status = 200

\* C26 as stated: recalculateTaxReturn persists the adjustedGrossIncome,
\* standardDeduction, taxableIncome, taxLiability, refundAmount and
\* amountOwed that calculateTaxReturn computes for the same total income,
\* filing status and withheld tax, when there is no itemized deduction.
C26_RecalculationAgrees ==
    Recalculated =>
        /\ taxReturns[1].adjustedGrossIncome = CalculatedForFiling.adjustedGrossIncome
        /\ taxReturns[1].standardDeduction = CalculatedForFiling.standardDeduction
        /\ taxReturns[1].taxableIncome = CalculatedForFiling.taxableIncome
        /\ taxReturns[1].taxLiability = CalculatedForFiling.taxLiability
        /\ taxReturns[1].refundAmount = CalculatedForFiling.refundAmount
        /\ taxReturns[1].amountOwed = CalculatedForFiling.amountOwed

\* C29 as stated: accepting again an extracted entry that is already
\* accepted creates no second income entry and does not change the totals:
\* an accept request that newly accepts no entry leaves the income entries
\* and the total income of the tax return as they were.
C29_AcceptIsIdempotent ==
    [][(AcceptedStep
            /\ \A id \in 1..Len(documentExtractedEntries) :
                    documentExtractedEntries'[id].isAccepted
                        => documentExtractedEntries[id].isAccepted)
        => /\ incomeEntryRows' = incomeEntryRows
           /\ taxReturns'[1].totalIncome = taxReturns[1].totalIncome]_vars

\* the line items stored as INCOME rows for a document, in id order
IncomeItemsOf(documentId) ==
    LET OfDocument(row) == row.entryType = "INCOME" /\ row.documentId = documentId
        rows == SelectSeq(documentExtractedEntries, OfDocument)
    IN  [i \in 1..Len(rows) |-> rows[i].extractedData]

\* C30 as stated: after any sequence of process requests for one document
\* the INCOME extracted entries stored for it are exactly the line items the
\* mapper produced for it, each stored once.
C30_LineItemsStoredOnce ==
    pc = "filing" =>
        \A d \in 1..Len(document) :
            document[d].processingStatus = "COMPLETED" =>
                IncomeItemsOf(d) =
                    mapExtractedDataToIncomeEntries(<<document[d].extractedData[1]>>,
                                                    now).incomeEntries

============================================================================
